---- MODULE Spec2Model ----
(***************************************************************************)
(* A model of azure_lib.py: the AzureCLI facade over the external `az`     *)
(* binary.  Every method is one action; the external process is the        *)
(* environment, whose answer to each check_output call (success with some  *)
(* output bytes, or failure) is chosen nondeterministically.               *)
(*                                                                         *)
(* Python values:                                                          *)
(*   str    a sequence of one-character strings, <<"v", "1">>              *)
(*   None   the one-element sequence <<"None">> (no str contains it,       *)
(*          every element of a str being a single character)              *)
(*   bytes  a sequence of integers 0..255                                  *)
(* A command line handed to check_output is a TLA+ string, built with \o   *)
(* the way the source builds it with the % operator.                       *)
(***************************************************************************)
EXTENDS Integers, Sequences, FiniteSets, TLC

VARIABLES
    alive,   \* TRUE when the last construction produced an object
    self,    \* the object's attributes: a function from attribute name to value
    call,    \* the last completed call: its operation, arguments, and outcome
    fs       \* the files create_parameter_file reads and writes

vars == <<alive, self, call, fs>>

-----------------------------------------------------------------------------
(* Python values *)

None == <<"None">>

\* bool(x) of a str or None: None and "" are falsy
Truthy(x) == x # None /\ x # <<>>

RECURSIVE Flat(_)
\* "%s" % x : the text of a str (or "None") as one piece of a command line
Flat(s) == IF s = <<>> THEN "" ELSE Head(s) \o Flat(Tail(s))

\* a in b, for two str
Contains(b, a) ==
    \E i \in 0 .. (Len(b) - Len(a)) : SubSeq(b, i + 1, i + Len(a)) = a

\* the characters of the model's alphabet that str.strip() removes
IsWhite(c) == c \in {" ", "\t", "\n", "\r"}

\* the characters of the model's alphabet that \w matches
IsWord(c) == c \in {"_", "v", "d", "f", "V", "M", "r", "u", "n", "i", "g", "U+00E9",
                    "a", "k", "x"}

RECURSIVE LStrip(_)
LStrip(s) == IF s # <<>> /\ IsWhite(Head(s)) THEN LStrip(Tail(s)) ELSE s

RECURSIVE RStrip(_)
RStrip(s) ==
    IF s # <<>> /\ IsWhite(s[Len(s)]) THEN RStrip(SubSeq(s, 1, Len(s) - 1)) ELSE s

\* s.strip()
Strip(s) == RStrip(LStrip(s))

Min(S) == CHOOSE x \in S : \A y \in S : x <= y
Max(S) == CHOOSE x \in S : \A y \in S : x >= y

\* the bounded sequences over a set
SeqsUpTo(S, n) == UNION { [1 .. k -> S] : k \in 0 .. n }

-----------------------------------------------------------------------------
(* bytes, and bytes.decode('utf-8') *)

\* the characters of the model's alphabet, by code point
CharOf(cp) ==
    CASE cp = 32 -> " "
      [] cp = 95 -> "_"
      [] cp = 118 -> "v"
      [] cp = 86 -> "V"
      [] cp = 77 -> "M"
      [] cp = 114 -> "r"
      [] cp = 117 -> "u"
      [] cp = 110 -> "n"
      [] cp = 105 -> "i"
      [] cp = 103 -> "g"
      [] cp = 49 -> "1"
      [] cp = 46 -> "."
      [] cp = 112 -> "p"
      [] cp = 120 -> "x"
      [] cp = 233 -> "U+00E9"
      [] OTHER -> "U+FFFD"

IsLead2(b) == b \in 194 .. 223
IsCont(b) == b \in 128 .. 191

RECURSIVE ValidUtf8(_)
\* b is well-formed UTF-8 (one- and two-byte sequences)
ValidUtf8(b) ==
    IF b = <<>> THEN TRUE
    ELSE IF b[1] < 128 THEN ValidUtf8(Tail(b))
    ELSE /\ IsLead2(b[1])
         /\ Len(b) >= 2
         /\ IsCont(b[2])
         /\ ValidUtf8(Tail(Tail(b)))

RECURSIVE Decode(_)
\* b.decode('utf-8') of well-formed b: one character per encoded code point
Decode(b) ==
    IF b = <<>> THEN <<>>
    ELSE IF b[1] < 128 THEN <<CharOf(b[1])>> \o Decode(Tail(b))
    ELSE <<CharOf((b[1] - 192) * 64 + (b[2] - 128))>> \o Decode(Tail(Tail(b)))

\* bytes.isspace(): at least one byte, and every byte ASCII whitespace
IsSpace(b) == Len(b) > 0 /\ \A i \in 1 .. Len(b) : b[i] \in {9, 10, 11, 12, 13, 32}

-----------------------------------------------------------------------------
(* The external process.  A handler runs against a tape: the answers the   *)
(* environment gives to its check_output calls, in the order it makes them.*)

MaxOut == 2      \* the longest output of a command, in bytes
MaxKeys == 2     \* the most key records in a key listing

ByteVals == {32, 95, 118, 195, 169}

\* what a command can print: any well-formed text up to MaxOut bytes
Outputs == { b \in SeqsUpTo(ByteVals, MaxOut) : ValidUtf8(b) }

\* the outputs drawn inside the multi-step workflows, and what
\* `az group deployment create` can print
SampleOutputs == { <<>>, <<32>>, <<118>>, <<118, 95>>, <<118, 118>> }

\* An answer: the command failed (check_output raises CalledProcessError), or
\* succeeded printing `out`.  form "bytes": out is the bytes printed.  For the
\* key listing, whose text is handed to ast.literal_eval, the text is given by
\* how it parses: form "literal", out the sequence of key records it
\* evaluates to; "syntax" a text literal_eval rejects; "blank" only
\* whitespace; "empty" no bytes at all.
Ok(out) == [ok |-> TRUE, form |-> "bytes", out |-> out]
Fail == [ok |-> FALSE, form |-> "bytes", out |-> <<>>]
OkKeys(form, items) == [ok |-> TRUE, form |-> form, out |-> items]

KeyRecords ==
    { [keyName |-> <<"k">>, value |-> <<"s">>],
      [keyName |-> <<"k">>, value |-> <<"x">>],
      [keyName |-> <<"j">>, value |-> <<"x">>],
      [keyName |-> <<"j">>] }

\* the keys of one storage account carry different names (key1, key2)
KeyAnswers ==
    {Fail, OkKeys("empty", <<>>), OkKeys("blank", <<>>), OkKeys("syntax", <<>>)}
    \cup { OkKeys("literal", l) :
              l \in { m \in SeqsUpTo(KeyRecords, MaxKeys) :
                        \A i, j \in 1 .. Len(m) :
                            m[i].keyName = m[j].keyName => i = j } }

SampleKeyAnswers ==
    {Fail, OkKeys("literal", <<>>),
     OkKeys("literal", << [keyName |-> <<"k">>, value |-> <<"s">>] >>)}

\* what `az vm create` can print: nothing, a text without and two texts with
\* "VM running"
VmCreateOutputs ==
    { <<>>, <<118>>, <<86, 77, 32, 114, 117, 110, 110, 105, 110, 103>>,
      <<118, 32, 86, 77, 32, 114, 117, 110, 110, 105, 110, 103>> }

\* what `az network public-ip list -g <rg> -o table` can print: nothing, a
\* blank, a text without an address, and rows of an address and a name
PipOutputs ==
    { <<>>, <<32>>, <<118>>,
      <<49, 46, 49, 46, 49, 46, 49, 32, 112>>,
      <<49, 46, 49, 46, 49, 46, 49, 32, 32, 112>>,
      <<49, 46, 49, 46, 49, 46, 49, 32, 120, 32, 112>>,
      <<49, 49, 49, 49, 46, 49, 46, 49, 46, 49, 32, 32, 112>>,
      <<49, 46, 49, 46, 49, 32, 32, 112>> }

\* the answers to a command, by what the caller does with its output; `pick`
\* names the outputs a listing is drawn from
Answers(want, pick) ==
    CASE want = "status" -> {Ok(<<>>), Fail}
      [] want = "vmcreate" -> {Fail} \cup { Ok(b) : b \in VmCreateOutputs }
      [] want = "deployment" -> {Fail} \cup { Ok(b) : b \in SampleOutputs }
      [] want = "text" ->
            {Fail} \cup { Ok(b) : b \in CASE pick = "all" -> Outputs
                                          [] pick = "sample" -> SampleOutputs
                                          [] pick = "pip" -> PipOutputs }
      [] want = "keys" -> IF pick = "all" THEN KeyAnswers ELSE SampleKeyAnswers

NoExc == "none"
Pending == "pending"     \* the tape ran out: the handler has not finished

\* the run of a handler so far
Start(tape) ==
    [tape |-> tape, pos |-> 0, cmds |-> <<>>, reads |-> <<>>, log |-> <<>>, want |-> ""]

Return(v, st) == [exc |-> NoExc, ret |-> v, st |-> st]
Raise(e, st) == [exc |-> e, ret |-> None, st |-> st]
Log(level, st) == [st EXCEPT !.log = Append(@, level)]

\* K applied to the value of v
Then(v, K(_)) == CHOOSE r \in { K(x) : x \in {v} } : TRUE

\* statement after statement: an exception of the first leaves the block
Do(o, K(_)) == Then(o, LAMBDA x : IF x.exc # NoExc THEN x ELSE K(x))

\* check_output(cmd, shell=True): the bytes printed, or CalledProcessError
check_output(cmd, want, st) ==
    IF st.pos = Len(st.tape)
    THEN Raise(Pending, [st EXCEPT !.want = want])
    ELSE LET r == st.tape[st.pos + 1]
             st2 == [st EXCEPT !.pos = @ + 1, !.cmds = Append(@, cmd),
                               !.reads = Append(@, want)]
         IN IF r.ok THEN Return(r, st2) ELSE Raise("CalledProcessError", st2)

RECURSIVE Tapes(_, _, _)
\* the tapes on which handler H runs to completion, none longer than needed
Tapes(H(_), pick, t) ==
    Then(H(Start(t)), LAMBDA o :
        IF o.exc # Pending THEN {t}
        ELSE UNION { Tapes(H, pick, Append(t, r)) : r \in Answers(o.st.want, pick) })

\* what the caller sees of a finished run, and what the run did: the command
\* lines it issued (reads: how each one's output was to be read) and the
\* levels of the records it logged
Result(o) ==
    [exc |-> o.exc, ret |-> o.ret, cmds |-> o.st.cmds, reads |-> o.st.reads,
     log |-> o.st.log]

NoCall == [op |-> "none", args |-> <<>>, env |-> <<>>,
           res |-> [exc |-> NoExc, ret |-> None, cmds |-> <<>>, reads |-> <<>>,
                    log |-> <<>>]]

\* a method of the object is called and runs to completion
Invoke(op, args, H(_), pick) ==
    /\ call.op = "none"
    /\ \E t \in Tapes(H, pick, <<>>) :
        \E o \in {H(Start(t))} :
            call' = [op |-> op, args |-> args, env |-> t, res |-> Result(o)]
    /\ UNCHANGED <<alive, self, fs>>

\* the caller has the outcome of its call and can make the next one
Continue ==
    /\ call.op # "none"
    /\ call' = NoCall
    /\ UNCHANGED <<alive, self, fs>>

-----------------------------------------------------------------------------
(* AzureCLI.__init__ *)

azure == <<"a", "z", "u", "r", "e">>

InitArgs == {None, <<>>, <<"a">>}

\* __init__ with `or` for the first `and` of line 42
AzureCLI_init_AnyOf(appid, dirid, key, username, pw) ==
    IF Truthy(appid) \/ (Truthy(dirid) /\ Truthy(key))
    THEN [exc |-> NoExc,
          attrs |-> [type |-> azure, appid |-> appid, dirid |-> dirid, key |-> key,
                     is_logged_in |-> FALSE]]
    ELSE IF Truthy(username) /\ Truthy(pw)
    THEN [exc |-> NoExc,
          attrs |-> [type |-> azure, username |-> username, pw |-> pw,
                     is_logged_in |-> FALSE]]
    ELSE [exc |-> "ValueError", attrs |-> [type |-> azure]]

\* the attributes __init__ sets, and the exception it raises if any
AzureCLI_init(appid, dirid, key, username, pw) ==
    IF Truthy(appid) /\ Truthy(dirid) /\ Truthy(key)
    THEN [exc |-> NoExc,
          attrs |-> [type |-> azure, appid |-> appid, dirid |-> dirid, key |-> key,
                     is_logged_in |-> FALSE]]
    ELSE IF Truthy(username) /\ Truthy(pw)
    THEN [exc |-> NoExc,
          attrs |-> [type |-> azure, username |-> username, pw |-> pw,
                     is_logged_in |-> FALSE]]
    ELSE [exc |-> "ValueError", attrs |-> [type |-> azure]]

\* obj = AzureCLI(appid, dirid, key, username, pw)
Construct ==
    /\ ~alive
    /\ call.op = "none"
    /\ \E appid \in InitArgs, dirid \in InitArgs, key \in InitArgs,
          username \in InitArgs, pw \in InitArgs :
        LET r == AzureCLI_init(appid, dirid, key, username, pw) IN
        /\ alive' = (r.exc = NoExc)
        /\ self' = r.attrs
        /\ call' = [op |-> "__init__",
                    args |-> [appid |-> appid, dirid |-> dirid, key |-> key,
                              username |-> username, pw |-> pw],
                    env |-> <<>>,
                    res |-> [exc |-> r.exc, ret |-> None, cmds |-> <<>>, reads |-> <<>>,
                             log |-> <<>>]]
    /\ UNCHANGED fs

-----------------------------------------------------------------------------
(* Azure Connectivity Functions *)

HasAttr(obj, a) == a \in DOMAIN obj

\* lines 73-86 of login_azure_cli: confirm the CLI is installed, or install it
login_install(st) ==
    Then(check_output("which az", "status", st), LAMBDA which :
        IF which.exc # "CalledProcessError" THEN which
        ELSE Then(check_output("pip install azure-cli", "status",
                               Log("info", Log("info", which.st))), LAMBDA pip :
            \* log.error(output) reads a name no assignment has bound
            IF pip.exc = "CalledProcessError"
            THEN Raise("UnboundLocalError", Log("error", pip.st))
            ELSE IF pip.exc # NoExc THEN pip
            ELSE Return(None, Log("info", pip.st))))

\* login_azure_cli dropping the key once it has logged in with it
login_azure_cli_ForgetsKey(obj, st) ==
    Then(login_install(st), LAMBDA pre :
        IF pre.exc # NoExc THEN [o |-> pre, obj |-> obj]
        ELSE IF ~HasAttr(obj, "appid")
        THEN [o |-> Raise("AttributeError", pre.st), obj |-> obj]
        ELSE Then(check_output("az login -u " \o Flat(obj.appid)
                               \o " --service-principal --tenant " \o Flat(obj.dirid)
                               \o " -p " \o Flat(obj.key), "status", pre.st), LAMBDA o :
                 IF o.exc = "CalledProcessError"
                 THEN [o |-> Raise(o.exc, Log("error", o.st)), obj |-> obj]
                 ELSE IF o.exc # NoExc THEN [o |-> o, obj |-> obj]
                 ELSE [o |-> Return(None, Log("info", o.st)),
                       obj |-> [obj EXCEPT !.is_logged_in = TRUE, !.key = None]]))

\* login_azure_cli setting is_logged_in before it tries the login command
login_azure_cli_FlagFirst(obj, st) ==
    Then(login_install(st), LAMBDA pre :
        IF pre.exc # NoExc THEN [o |-> pre, obj |-> obj]
        ELSE IF ~HasAttr(obj, "appid")
        THEN [o |-> Raise("AttributeError", pre.st), obj |-> obj]
        ELSE Then(check_output("az login -u " \o Flat(obj.appid)
                               \o " --service-principal --tenant " \o Flat(obj.dirid)
                               \o " -p " \o Flat(obj.key), "status", pre.st), LAMBDA o :
                 IF o.exc = Pending THEN [o |-> o, obj |-> obj]
                 ELSE IF o.exc = "CalledProcessError"
                 THEN [o |-> Raise(o.exc, Log("error", o.st)),
                       obj |-> [obj EXCEPT !.is_logged_in = TRUE]]
                 ELSE [o |-> Return(None, Log("info", o.st)),
                       obj |-> [obj EXCEPT !.is_logged_in = TRUE]]))

\* login_azure_cli: the outcome, and the object's attributes afterwards
login_azure_cli(obj, st) ==
    Then(login_install(st), LAMBDA pre :
        IF pre.exc # NoExc THEN [o |-> pre, obj |-> obj]
        \* line 89 reads self.appid, which __init__ sets only on its first branch
        ELSE IF ~HasAttr(obj, "appid")
        THEN [o |-> Raise("AttributeError", pre.st), obj |-> obj]
        ELSE IF Truthy(obj.appid)
        THEN Then(check_output("az login -u " \o Flat(obj.appid)
                               \o " --service-principal --tenant " \o Flat(obj.dirid)
                               \o " -p " \o Flat(obj.key), "status", pre.st), LAMBDA o :
                 IF o.exc = "CalledProcessError"
                 THEN [o |-> Raise(o.exc, Log("error", o.st)), obj |-> obj]
                 ELSE IF o.exc # NoExc THEN [o |-> o, obj |-> obj]
                 ELSE [o |-> Return(None, Log("info", o.st)),
                       obj |-> [obj EXCEPT !.is_logged_in = TRUE]])
        ELSE IF ~HasAttr(obj, "username")
        THEN [o |-> Raise("AttributeError", pre.st), obj |-> obj]
        ELSE IF Truthy(obj.username)
        THEN Then(check_output("az login -u " \o Flat(obj.username) \o " -p "
                               \o Flat(obj.pw), "status", pre.st), LAMBDA o :
                 IF o.exc = "CalledProcessError"
                 THEN [o |-> Raise(o.exc, Log("error", o.st)), obj |-> obj]
                 ELSE IF o.exc # NoExc THEN [o |-> o, obj |-> obj]
                 ELSE [o |-> Return(None, Log("info", o.st)),
                       obj |-> [obj EXCEPT !.is_logged_in = TRUE]])
        ELSE [o |-> Return(None, Log("info", pre.st)),
              obj |-> [obj EXCEPT !.is_logged_in = TRUE]])

Call_login_azure_cli ==
    /\ alive
    /\ call.op = "none"
    /\ \E t \in Tapes(LAMBDA st : login_azure_cli(self, st).o, "all", <<>>) :
        \E r \in {login_azure_cli(self, Start(t))} :
            /\ self' = r.obj
            /\ call' = [op |-> "login_azure_cli", args |-> <<>>, env |-> t,
                        res |-> Result(r.o)]
    /\ UNCHANGED <<alive, fs>>

\* disconnect_azure: a failed logout is logged and not raised
disconnect_azure(st) ==
    Then(check_output("az logout", "status", st), LAMBDA o :
        IF o.exc = "CalledProcessError" THEN Return(None, Log("error", o.st))
        ELSE IF o.exc # NoExc THEN o
        ELSE Return(None, o.st))

Call_disconnect_azure ==
    /\ alive
    /\ Invoke("disconnect_azure", <<>>, disconnect_azure, "all")

-----------------------------------------------------------------------------
(* The list and show operations *)

\* lines 182-184 and their like: assert not out.isspace(); return
\* out.decode('utf-8'), for the answer r of a command that succeeded
checked_text(r, st) ==
    IF IsSpace(r.out) THEN Raise("AssertionError", st)
    ELSE IF ~ValidUtf8(r.out) THEN Raise("UnicodeDecodeError", st)
    ELSE Return(Decode(r.out), st)

\* a query outside any try block: a failure of the command propagates
query(cmd, st) ==
    Do(check_output(cmd, "text", st), LAMBDA o : checked_text(o.ret, o.st))

\* a query in try/except with log.error and raise
query_reraise(cmd, st) ==
    Then(check_output(cmd, "text", st), LAMBDA o :
        IF o.exc = "CalledProcessError" THEN Raise(o.exc, Log("error", o.st))
        ELSE IF o.exc # NoExc THEN o
        ELSE checked_text(o.ret, o.st))

\* a query in try/except with log.error and no raise: control reaches the
\* assert, which reads `out`, a name the failed assignment never bound
query_swallow(cmd, st) ==
    Then(check_output(cmd, "text", st), LAMBDA o :
        IF o.exc = "CalledProcessError"
        THEN Raise("UnboundLocalError", Log("error", o.st))
        ELSE IF o.exc # NoExc THEN o
        ELSE checked_text(o.ret, o.st))

RECURSIVE tag_str(_)
\* lines 173-175: tags is the dict's items in order, each <<tag, value>>
tag_str(tags) ==
    IF tags = <<>> THEN ""
    ELSE "[?" \o Flat(tags[1][1]) \o "=='" \o Flat(tags[1][2]) \o "']" \o tag_str(Tail(tags))

list_rg(tags, json, st) ==
    IF json
    THEN query("az group list --query \"" \o tag_str(tags) \o "\"", st)
    ELSE query("az group list --query \"" \o tag_str(tags) \o "\" -o table", st)

show_rg(rg_name, json, st) ==
    IF json
    THEN query("az group show --name " \o Flat(rg_name), st)
    ELSE query("az group show --name " \o Flat(rg_name) \o " -o table", st)

list_vnet(rg_name, json, st) ==
    IF json
    THEN query("az network vnet list --resource-group " \o Flat(rg_name), st)
    ELSE query("az network vnet list --resource-group " \o Flat(rg_name) \o " -o table", st)

show_vnet(name, rg_name, json, st) ==
    IF json
    THEN query("az network vnet show -g " \o Flat(rg_name) \o " -n " \o Flat(name), st)
    ELSE query("az network vnet show -g " \o Flat(rg_name) \o " -n " \o Flat(name)
               \o " -o table", st)

list_vnet_subnets(name, rg_name, json, st) ==
    IF json
    THEN query("az network vnet subnet list -g " \o Flat(rg_name) \o " --vnet-name "
               \o Flat(name), st)
    ELSE query("az network vnet subnet list -g " \o Flat(rg_name) \o " --vnet-name "
               \o Flat(name) \o " -o table", st)

show_vnet_subnet(name, rg_name, vnet_name, json, st) ==
    IF json
    THEN query("az network vnet subnet show -g " \o Flat(rg_name) \o " -n " \o Flat(name)
               \o " --vnet-name " \o Flat(vnet_name), st)
    ELSE query("az network vnet subnet show -g " \o Flat(rg_name) \o " -n " \o Flat(name)
               \o " --vnet-name " \o Flat(vnet_name) \o " -o table", st)

list_vm(rg_name, json, st) ==
    IF json
    THEN query_reraise("az vm list -g " \o Flat(rg_name), st)
    ELSE query_reraise("az vm list -g " \o Flat(rg_name) \o " -o table", st)

list_resources(rg_name, json, st) ==
    IF json
    THEN query_swallow("az resource list -g " \o Flat(rg_name), st)
    ELSE query_swallow("az resource list -g " \o Flat(rg_name) \o " -o table", st)

show_all_route_tables(rg_name, json, st) ==
    IF json
    THEN query("az network route-table list -g " \o Flat(rg_name), st)
    ELSE query("az network route-table list -g " \o Flat(rg_name) \o " -o table", st)

show_route_table(rg_name, route_table, json, st) ==
    IF json
    THEN query("az network route-table show -g " \o Flat(rg_name) \o " -n "
               \o Flat(route_table), st)
    ELSE query("az network route-table show -g " \o Flat(rg_name) \o " -n "
               \o Flat(route_table) \o " -o table", st)

show_routes(rg_name, route_table, json, st) ==
    IF json
    THEN query("az network route-table route list -g " \o Flat(rg_name)
               \o " --route-table-name " \o Flat(route_table), st)
    ELSE query("az network route-table route list -g " \o Flat(rg_name)
               \o " --route-table-name " \o Flat(route_table) \o " -o table", st)

\* line 838 has no blank between `list` and `-g`
list_pip(rg_name, json, st) ==
    IF json
    THEN query_reraise("az network public-ip list-g " \o Flat(rg_name), st)
    ELSE query_reraise("az network public-ip list -g " \o Flat(rg_name) \o " -o table", st)

\* \d{1,3} at s[i], before a character that is no digit: where it ends, or 0
OctetEnd(s, i) ==
    LET digits == {"0", "1", "2", "3", "4", "5", "6", "7", "8", "9"}
        e == Max({ j \in (i - 1) .. Len(s) : \A k \in i .. j : s[k] \in digits })
    IN IF e - i + 1 \in 1 .. 3 THEN e ELSE 0

\* \d{1,3}\.\d{1,3}\.\d{1,3}\.\d{1,3} at s[i], `left` octets to go: where it
\* ends, or 0
RECURSIVE AddressEnd(_, _, _)
AddressEnd(s, i, left) ==
    LET e == OctetEnd(s, i)
    IN IF e = 0 THEN 0
       ELSE IF left = 1 THEN e
       ELSE IF e < Len(s) /\ s[e + 1] = "." THEN AddressEnd(s, e + 2, left - 1)
       ELSE 0

\* ` .* <pip_name>` after s[e], for a pip_name without regex metacharacters
RowNames(s, e, pip_name) ==
    /\ e < Len(s)
    /\ s[e + 1] = " "
    /\ \E q \in (e + 2) .. Len(s) :
          /\ s[q] = " "
          /\ \A k \in (e + 2) .. (q - 1) : s[k] # "\n"
          /\ q + Len(pip_name) <= Len(s)
          /\ SubSeq(s, q + 1, q + Len(pip_name)) = pip_name

get_public_ip_from_vm(pip_name, rg_name, st) ==
    Do(list_pip(rg_name, FALSE, st), LAMBDA out :
        \* assert out, "..." % out.decode('utf-8'): the message of the failed
        \* assert calls decode on a str
        IF out.ret = <<>> THEN Raise("AttributeError", out.st)
        ELSE LET s == out.ret
                 starts == { i \in 1 .. Len(s) :
                               /\ AddressEnd(s, i, 4) # 0
                               /\ RowNames(s, AddressEnd(s, i, 4), pip_name) }
             IN IF starts = {} THEN Raise("AssertionError", out.st)
                ELSE Return(Strip(SubSeq(s, Min(starts), AddressEnd(s, Min(starts), 4))),
                            out.st))

list_nsg(rg_name, json, st) ==
    IF json
    THEN query_reraise("az network nsg list -g " \o Flat(rg_name), st)
    ELSE query_reraise("az network nsg list -g " \o Flat(rg_name) \o " -o table", st)

list_nic(rg_name, json, st) ==
    IF json
    THEN query_reraise("az network nic list -g " \o Flat(rg_name), st)
    ELSE query_reraise("az network nic list -g " \o Flat(rg_name) \o " -o table", st)

list_disk(rg_name, json, st) ==
    IF json
    THEN query_swallow("az disk list -g " \o Flat(rg_name), st)
    ELSE query_swallow("az disk list -g " \o Flat(rg_name) \o " -o table", st)

list_storage(rg_name, json, st) ==
    IF json
    THEN query("az storage account list -g " \o Flat(rg_name), st)
    ELSE query("az storage account list -g " \o Flat(rg_name) \o " -o table", st)

show_storage(name, rg_name, json, st) ==
    IF json
    THEN query("az storage account show -g " \o Flat(rg_name) \o " -n " \o Flat(name), st)
    ELSE query("az storage account show -g " \o Flat(rg_name) \o " -n " \o Flat(name)
               \o " -o table", st)

\* keys[k] = v on a dict held as its items in insertion order
DictSet(d, k, v) ==
    IF \E i \in 1 .. Len(d) : d[i][1] = k
    THEN [i \in 1 .. Len(d) |-> IF d[i][1] = k THEN <<k, v>> ELSE d[i]]
    ELSE Append(d, <<k, v>>)

RECURSIVE extract_keys(_, _)
\* lines 1166-1168: the loop over the evaluated list
extract_keys(items, keys) ==
    IF items = <<>> THEN keys
    ELSE extract_keys(Tail(items), DictSet(keys, items[1].keyName, items[1].value))

\* get_storage_keys leaving its loop after the first record
get_storage_keys_FirstOnly(storage_name, rg_name, st) ==
    Do(check_output("az storage account keys list -n " \o Flat(storage_name)
                    \o " -g " \o Flat(rg_name), "keys", st), LAMBDA o :
        IF o.ret.form = "blank" THEN Raise("AssertionError", o.st)
        ELSE IF o.ret.form # "literal" THEN Raise("SyntaxError", o.st)
        ELSE IF \E i \in 1 .. Len(o.ret.out) :
                    ~({"keyName", "value"} \subseteq DOMAIN o.ret.out[i])
        THEN Raise("KeyError", o.st)
        ELSE Return(extract_keys(IF Len(o.ret.out) > 1 THEN << o.ret.out[1] >>
                                 ELSE o.ret.out, <<>>), o.st))

get_storage_keys(storage_name, rg_name, st) ==
    Do(check_output("az storage account keys list -n " \o Flat(storage_name)
                    \o " -g " \o Flat(rg_name), "keys", st), LAMBDA o :
        IF o.ret.form = "blank" THEN Raise("AssertionError", o.st)
        ELSE IF o.ret.form # "literal" THEN Raise("SyntaxError", o.st)
        \* key['keyName'], key['value'] of a record without that entry
        ELSE IF \E i \in 1 .. Len(o.ret.out) :
                    ~({"keyName", "value"} \subseteq DOMAIN o.ret.out[i])
        THEN Raise("KeyError", o.st)
        ELSE Return(extract_keys(o.ret.out, <<>>), o.st))

\* keys = self.get_storage_keys(storage_name, rg_name);
\* key = list(keys.values())[0]
first_key(storage_name, rg_name, st) ==
    Do(get_storage_keys(storage_name, rg_name, st), LAMBDA keys :
        IF Len(keys.ret) = 0 THEN Raise("IndexError", keys.st)
        ELSE Return(keys.ret[1][2], keys.st))

list_storage_container(rg_name, storage_name, json, st) ==
    Do(first_key(storage_name, rg_name, st), LAMBDA key :
        IF json
        THEN query("az storage container list --account-name " \o Flat(storage_name)
                   \o " --account-key " \o Flat(key.ret), key.st)
        ELSE query("az storage container list --account-name " \o Flat(storage_name)
                   \o " --account-key " \o Flat(key.ret) \o " -o table", key.st))

-----------------------------------------------------------------------------
(* The operations that create and delete *)

\* try: check_output(cmd) / except Exception: log.error(...); raise
run(cmd, st) ==
    Then(check_output(cmd, "status", st), LAMBDA o :
        IF o.exc = "CalledProcessError" THEN Raise(o.exc, Log("error", o.st))
        ELSE IF o.exc # NoExc THEN o
        ELSE Return(None, o.st))

\* try: check_output(cmd) / except Exception: log.error(...), and no raise
run_no_raise(cmd, st) ==
    Then(check_output(cmd, "status", st), LAMBDA o :
        IF o.exc = "CalledProcessError" THEN Return(None, Log("error", o.st))
        ELSE IF o.exc # NoExc THEN o
        ELSE Return(None, o.st))

create_rg(rg_name, loc, st) ==
    run("az group create --name " \o Flat(rg_name) \o " --location " \o Flat(loc), st)

delete_rg(rg_name, st) ==
    run("az group delete --name " \o Flat(rg_name) \o " -y", st)

create_vnet(name, rg_name, add_prefix, loc, subnet_name, subnet_prefix, st) ==
    IF Truthy(add_prefix) /\ Truthy(subnet_prefix) /\ Truthy(subnet_name)
    THEN run("az network vnet create -g " \o Flat(rg_name) \o " -n " \o Flat(name)
             \o " --location " \o Flat(loc) \o " --address-prefix " \o Flat(add_prefix)
             \o " --subnet-name " \o Flat(subnet_name) \o " --subnet-prefix "
             \o Flat(subnet_prefix), st)
    ELSE run("az network vnet create -g " \o Flat(rg_name) \o " -n " \o Flat(name)
             \o " --location " \o Flat(loc), st)

delete_vnet(name, rg_name, st) ==
    run("az network vnet delete -n " \o Flat(name) \o " -g " \o Flat(rg_name), st)

add_vnet_subnet(name, rg_name, vnet_name, address_prefix, route_table, st) ==
    IF Truthy(route_table)
    THEN run("az network vnet subnet create -g " \o Flat(rg_name) \o " -n " \o Flat(name)
             \o " --vnet-name " \o Flat(vnet_name) \o " --address-prefix "
             \o Flat(address_prefix) \o " --route-table " \o Flat(route_table), st)
    ELSE run("az network vnet subnet create -g " \o Flat(rg_name) \o " -n " \o Flat(name)
             \o " --vnet-name " \o Flat(vnet_name) \o " --address-prefix "
             \o Flat(address_prefix), st)

delete_vnet_subnet(name, rg_name, vnet_name, st) ==
    run("az network vnet subnet delete -g " \o Flat(rg_name) \o " -n " \o Flat(name)
        \o " --vnet-name " \o Flat(vnet_name), st)

add_route_table(rg_name, route_table, st) ==
    run("az network route-table create -g " \o Flat(rg_name) \o " -n "
        \o Flat(route_table), st)

delete_route_table(rg_name, route_table, st) ==
    run("az network route-table delete -g " \o Flat(rg_name) \o " -n "
        \o Flat(route_table), st)

add_route(rg_name, route_table, route, prefix, next_hop_add, next_hop_type, st) ==
    run("az network route-table route create -g " \o Flat(rg_name) \o " -n " \o Flat(route)
        \o " --address-prefix " \o Flat(prefix) \o " --next-hop-type "
        \o Flat(next_hop_type) \o " --route-table-name " \o Flat(route_table)
        \o " --next-hop-ip-address " \o Flat(next_hop_add), st)

delete_route(rg_name, route_table, route, st) ==
    run("az network route-table route delete -g " \o Flat(rg_name) \o " -n " \o Flat(route)
        \o " --route-table-name " \o Flat(route_table), st)

create_storage(name, rg_name, loc, sku, st) ==
    run("az storage account create -g " \o Flat(rg_name) \o " -n " \o Flat(name) \o " -l "
        \o Flat(loc) \o " --sku " \o Flat(sku), st)

delete_storage(name, rg_name, st) ==
    run("az storage account delete -n " \o Flat(name) \o " -g " \o Flat(rg_name)
        \o " --yes", st)

create_storage_container(name, rg_name, storage_name, st) ==
    Do(first_key(storage_name, rg_name, st), LAMBDA key :
        run_no_raise("az storage container create -n " \o Flat(name) \o " --account-name "
                     \o Flat(storage_name) \o " --account-key " \o Flat(key.ret), key.st))

delete_storage_container(name, rg_name, storage_name, st) ==
    Do(first_key(storage_name, rg_name, st), LAMBDA key :
        run_no_raise("az storage container delete -n " \o Flat(name) \o " --account-name "
                     \o Flat(storage_name) \o " --account-key " \o Flat(key.ret), key.st))

\* except Exception as e: log.error(...); raise, around a block whose outcome is o
caught(o) ==
    Then(o, LAMBDA x :
        IF x.exc \in {NoExc, Pending} THEN x ELSE Raise(x.exc, Log("error", x.st)))

\* lines 1274-1279: re.search(r'^.*[\/\\](.*)', file_path), on a one-line path:
\* the text after the last separator, stripped; blob.vhd without a separator
blob_name(file_path) ==
    LET seps == { i \in 1 .. Len(file_path) : file_path[i] \in {"/", "\\"} } IN
    IF seps = {} THEN <<"b", "l", "o", "b", ".", "v", "h", "d">>
    ELSE Strip(SubSeq(file_path, Max(seps) + 1, Len(file_path)))

upload_vhd_to_container(container_name, storage_name, rg_name, file_path, st) ==
    Do(list_storage_container(rg_name, storage_name, FALSE, st), LAMBDA listing :
        IF ~Contains(listing.ret, container_name)
        THEN Raise("AssertionError", listing.st)
        ELSE Do(first_key(storage_name, rg_name, listing.st), LAMBDA key :
            run_no_raise("az storage blob upload  -n " \o Flat(blob_name(file_path))
                         \o " -c " \o Flat(container_name) \o " --account-name "
                         \o Flat(storage_name) \o " --account-key " \o Flat(key.ret)
                         \o " -f " \o Flat(file_path) \o " -t page", key.st)))

-----------------------------------------------------------------------------
(* Virtual machines and what is deleted with them *)

VM_running == <<"V", "M", " ", "r", "u", "n", "n", "i", "n", "g">>

\* deploy_linux without the assert of line 551
deploy_linux_Unasserted(name, rg_name, vnet_name, subnet_name, username, pw, st) ==
    Then(check_output("az vm create -n " \o Flat(name) \o " -g " \o Flat(rg_name)
                      \o " --admin-username " \o Flat(username)
                      \o " --admin-password " \o Flat(pw)
                      \o " --image UbuntuLTS --vnet-name " \o Flat(vnet_name)
                      \o " --subnet " \o Flat(subnet_name), "vmcreate", st), LAMBDA o :
        IF o.exc = "CalledProcessError" THEN Raise(o.exc, Log("error", o.st))
        ELSE IF o.exc # NoExc THEN o
        ELSE IF ~ValidUtf8(o.ret.out) THEN Raise("UnicodeDecodeError", Log("error", o.st))
        ELSE Return(Decode(o.ret.out), o.st))

deploy_linux(name, rg_name, vnet_name, subnet_name, username, pw, st) ==
    Then(check_output("az vm create -n " \o Flat(name) \o " -g " \o Flat(rg_name)
                      \o " --admin-username " \o Flat(username)
                      \o " --admin-password " \o Flat(pw)
                      \o " --image UbuntuLTS --vnet-name " \o Flat(vnet_name)
                      \o " --subnet " \o Flat(subnet_name), "vmcreate", st), LAMBDA o :
        IF o.exc = "CalledProcessError" THEN Raise(o.exc, Log("error", o.st))
        ELSE IF o.exc # NoExc THEN o
        ELSE IF ~ValidUtf8(o.ret.out) THEN Raise("UnicodeDecodeError", Log("error", o.st))
        ELSE IF ~Contains(Decode(o.ret.out), VM_running) THEN Raise("AssertionError", o.st)
        ELSE Return(Decode(o.ret.out), o.st))

\* lines 1047-1053: re.search("(" + re.escape(vm_name) + r"_\w*)", disks): the
\* leftmost vm_name followed by "_", with the word characters after it; None
\* when there is none (m.group fails and the failure is logged)
get_disk_name(rg_name, vm_name, st) ==
    Do(list_disk(rg_name, FALSE, st), LAMBDA disks :
        IF ~Contains(disks.ret, vm_name) THEN Raise("AssertionError", disks.st)
        ELSE LET d == disks.ret
                 n == Len(vm_name)
                 starts == { i \in 1 .. Len(d) - n :
                               SubSeq(d, i, i + n - 1) = vm_name /\ d[i + n] = "_" }
             IN IF starts = {} THEN Return(None, Log("error", disks.st))
                ELSE LET i == Min(starts)
                         e == Max({ j \in (i + n) .. Len(d) :
                                      \A k \in (i + n + 1) .. j : IsWord(d[k]) })
                     IN Return(Strip(SubSeq(d, i, e)), disks.st))

\* the check of the VM listing without its assert
vm_deleted_Unchecked(rg_name, vm_name, st) ==
    Do(list_vm(rg_name, FALSE, st), LAMBDA vms : Return(None, vms.st))

\* lines 810-811 and their like: assert vm_name not in self.list_vm(rg_name)
vm_deleted(rg_name, vm_name, st) ==
    Do(list_vm(rg_name, FALSE, st), LAMBDA vms :
        IF Contains(vms.ret, vm_name) THEN Raise("AssertionError", vms.st)
        ELSE Return(None, vms.st))

delete_public_ip(rg_name, vm_name, pip_name, st) ==
    Do(vm_deleted(rg_name, vm_name, st), LAMBDA chk :
        IF ~Truthy(pip_name)
        THEN run("az network public-ip delete -n "
                 \o Flat(vm_name \o <<"P", "u", "b", "l", "i", "c", "I", "P">>)
                 \o " -g " \o Flat(rg_name), chk.st)
        ELSE run("az network public-ip delete -n " \o Flat(pip_name) \o " -g "
                 \o Flat(rg_name), chk.st))

delete_nsg(rg_name, vm_name, nsg_name, st) ==
    Do(vm_deleted(rg_name, vm_name, st), LAMBDA chk :
        IF ~Truthy(nsg_name)
        THEN run("az network nsg delete -n " \o Flat(vm_name \o <<"N", "S", "G">>)
                 \o " -g " \o Flat(rg_name), chk.st)
        ELSE run("az network nsg delete -n " \o Flat(nsg_name) \o " -g "
                 \o Flat(rg_name), chk.st))

\* delete_nic with the default name <vm_name>Nic
delete_nic_ShortSuffix(rg_name, vm_name, nic_name, st) ==
    Do(vm_deleted(rg_name, vm_name, st), LAMBDA chk :
        IF ~Truthy(nic_name)
        THEN run("az network nic delete -n " \o Flat(vm_name \o <<"N", "i", "c">>)
                 \o " -g " \o Flat(rg_name), chk.st)
        ELSE run("az network nic delete -n " \o Flat(nic_name) \o " -g "
                 \o Flat(rg_name), chk.st))

delete_nic(rg_name, vm_name, nic_name, st) ==
    Do(vm_deleted(rg_name, vm_name, st), LAMBDA chk :
        IF ~Truthy(nic_name)
        THEN run("az network nic delete -n " \o Flat(vm_name \o <<"V", "M", "N", "i", "c">>)
                 \o " -g " \o Flat(rg_name), chk.st)
        ELSE run("az network nic delete -n " \o Flat(nic_name) \o " -g "
                 \o Flat(rg_name), chk.st))

delete_disk(rg_name, vm_name, disk_name, st) ==
    Do(vm_deleted(rg_name, vm_name, st), LAMBDA chk :
        Do(IF ~Truthy(disk_name) THEN get_disk_name(rg_name, vm_name, chk.st)
           ELSE Return(disk_name, chk.st), LAMBDA found :
            run("az disk delete -n " \o Flat(found.ret) \o " -g " \o Flat(rg_name)
                \o " --yes", found.st)))

\* delete_linux without the assert of line 591
delete_linux_Unverified(name, rg_name, st) ==
    Do(run("az vm delete -n " \o Flat(name) \o " -g " \o Flat(rg_name) \o " --yes",
           Log("info", st)), LAMBDA vm :
    caught(
        Do(delete_disk(rg_name, name, None, Log("info", vm.st)), LAMBDA disk :
        Do(delete_nic(rg_name, name, None, Log("info", disk.st)), LAMBDA nic :
        Do(delete_nsg(rg_name, name, None, Log("info", nic.st)), LAMBDA nsg :
        Do(delete_public_ip(rg_name, name, None, Log("info", nsg.st)), LAMBDA pip :
        Do(list_resources(rg_name, FALSE, Log("info", pip.st)), LAMBDA left :
            Return(None, Log("info", left.st)))))))))

\* delete_linux deleting the NIC before the disk
delete_linux_NicFirst(name, rg_name, st) ==
    Do(run("az vm delete -n " \o Flat(name) \o " -g " \o Flat(rg_name) \o " --yes",
           Log("info", st)), LAMBDA vm :
    caught(
        Do(delete_nic(rg_name, name, None, Log("info", vm.st)), LAMBDA nic :
        Do(delete_disk(rg_name, name, None, Log("info", nic.st)), LAMBDA disk :
        Do(delete_nsg(rg_name, name, None, Log("info", disk.st)), LAMBDA nsg :
        Do(delete_public_ip(rg_name, name, None, Log("info", nsg.st)), LAMBDA pip :
        Do(list_resources(rg_name, FALSE, Log("info", pip.st)), LAMBDA left :
            IF Contains(left.ret, name) THEN Raise("AssertionError", left.st)
            ELSE Return(None, Log("info", left.st)))))))))

delete_linux(name, rg_name, st) ==
    Do(run("az vm delete -n " \o Flat(name) \o " -g " \o Flat(rg_name) \o " --yes",
           Log("info", st)), LAMBDA vm :
    caught(
        Do(delete_disk(rg_name, name, None, Log("info", vm.st)), LAMBDA disk :
        Do(delete_nic(rg_name, name, None, Log("info", disk.st)), LAMBDA nic :
        Do(delete_nsg(rg_name, name, None, Log("info", nic.st)), LAMBDA nsg :
        Do(delete_public_ip(rg_name, name, None, Log("info", nsg.st)), LAMBDA pip :
        Do(list_resources(rg_name, FALSE, Log("info", pip.st)), LAMBDA left :
            IF Contains(left.ret, name) THEN Raise("AssertionError", left.st)
            ELSE Return(None, Log("info", left.st)))))))))

-----------------------------------------------------------------------------
(* Azure Deployment Functions *)

Standard_LRS == <<"S", "t", "a", "n", "d", "a", "r", "d", "_", "L", "R", "S">>

deploy_from_template_custom_image(resource_group, storage_name, image_path, template_file, parameter_file, loc, storage_container_name, st) ==
    Do(caught(
        Do(create_rg(resource_group, loc, st), LAMBDA rg :
        Do(create_storage(storage_name, resource_group, loc, Standard_LRS,
                          Log("info", rg.st)), LAMBDA sto :
        Do(create_storage_container(storage_container_name, resource_group,
                                    storage_name, Log("info", sto.st)), LAMBDA con :
        Do(upload_vhd_to_container(storage_container_name, storage_name,
                                   resource_group, image_path, Log("info", con.st)),
           LAMBDA up : Return(None, Log("info", up.st))))))), LAMBDA setup :
    Then(check_output("az group deployment create -g " \o Flat(resource_group)
                      \o " --template-file " \o Flat(template_file)
                      \o " --parameters " \o Flat(parameter_file), "status",
                      Log("info", setup.st)), LAMBDA o :
        IF o.exc = "CalledProcessError" THEN Raise(o.exc, Log("error", o.st))
        ELSE IF o.exc # NoExc THEN o
        ELSE Return(None, Log("info", o.st))))

\* deploy_from_template_mp_image deleting the resource group when the
\* deployment fails
deploy_from_template_mp_image_CleansUp(rg_name, loc, template_file, parameter_file, st) ==
    Then(show_rg(rg_name, FALSE, st), LAMBDA shown :
        IF shown.exc = Pending THEN shown
        ELSE Do(IF shown.exc = NoExc THEN Return(None, Log("info", shown.st))
                ELSE create_rg(rg_name, loc, Log("info", shown.st)), LAMBDA rg :
            Then(check_output("az group deployment create -g " \o Flat(rg_name)
                              \o " --template-file " \o Flat(template_file)
                              \o " --parameters " \o Flat(parameter_file), "deployment",
                              rg.st), LAMBDA o :
                IF o.exc = "CalledProcessError"
                THEN Do(delete_rg(rg_name, Log("error", o.st)), LAMBDA d :
                         Raise(o.exc, d.st))
                ELSE IF o.exc # NoExc THEN o
                ELSE Return(None, o.st))))

\* deploy_from_template_mp_image with `except CalledProcessError` for the bare
\* except of line 506
deploy_from_template_mp_image_NarrowExcept(rg_name, loc, template_file, parameter_file, st) ==
    Then(show_rg(rg_name, FALSE, st), LAMBDA shown :
        IF shown.exc \notin {NoExc, "CalledProcessError"} THEN shown
        ELSE Do(IF shown.exc = NoExc THEN Return(None, Log("info", shown.st))
                ELSE create_rg(rg_name, loc, Log("info", shown.st)), LAMBDA rg :
            Then(check_output("az group deployment create -g " \o Flat(rg_name)
                              \o " --template-file " \o Flat(template_file)
                              \o " --parameters " \o Flat(parameter_file), "deployment",
                              rg.st), LAMBDA o :
                IF o.exc = "CalledProcessError" THEN Raise(o.exc, Log("error", o.st))
                ELSE IF o.exc # NoExc THEN o
                ELSE Return(None, o.st))))

deploy_from_template_mp_image(rg_name, loc, template_file, parameter_file, st) ==
    Then(show_rg(rg_name, FALSE, st), LAMBDA shown :
        IF shown.exc = Pending THEN shown
        \* the bare except of line 506 takes every failure of show_rg
        ELSE Do(IF shown.exc = NoExc THEN Return(None, Log("info", shown.st))
                ELSE create_rg(rg_name, loc, Log("info", shown.st)), LAMBDA rg :
            Then(check_output("az group deployment create -g " \o Flat(rg_name)
                              \o " --template-file " \o Flat(template_file)
                              \o " --parameters " \o Flat(parameter_file), "deployment",
                              rg.st), LAMBDA o :
                IF o.exc = "CalledProcessError" THEN Raise(o.exc, Log("error", o.st))
                ELSE IF o.exc # NoExc THEN o
                \* `out` is assigned and the method ends: it returns None
                ELSE Return(None, o.st))))

-----------------------------------------------------------------------------
(* The arguments the calls are made with *)

location == <<"l", "o", "c", "a", "t", "i", "o", "n">>
eastus == <<"e", "a", "s", "t", "u", "s">>

RgNames == { <<"r">> }
TagSets == { <<>>, << <<location, eastus>> >> }
VirtualAppliance ==
    <<"V", "i", "r", "t", "u", "a", "l", "A", "p", "p", "l", "i", "a", "n", "c", "e">>
VmNames == { <<"v">>, <<"v", "v">> }
\* an optional resource name: not passed, empty, or a name
OptionalNames == { None, <<>>, <<"d">> }
FilePaths == { <<"f">>, <<"d", "/", "f">>, <<"d", "\\", "f">>, <<"d", "/">>,
               <<"d", "/", " ", "f">> }

Call_list_rg ==
    /\ alive
    /\ \E tags \in TagSets, json \in BOOLEAN :
        Invoke("list_rg", [tags |-> tags, json |-> json],
               LAMBDA st : list_rg(tags, json, st), "all")

Call_show_rg ==
    /\ alive
    /\ \E rg_name \in RgNames, json \in BOOLEAN :
        Invoke("show_rg", [rg_name |-> rg_name, json |-> json],
               LAMBDA st : show_rg(rg_name, json, st), "all")

Call_list_vnet ==
    /\ alive
    /\ \E rg_name \in RgNames, json \in BOOLEAN :
        Invoke("list_vnet", [rg_name |-> rg_name, json |-> json],
               LAMBDA st : list_vnet(rg_name, json, st), "all")

Call_show_vnet ==
    /\ alive
    /\ \E name \in { <<"t">> }, rg_name \in RgNames, json \in BOOLEAN :
        Invoke("show_vnet", [name |-> name, rg_name |-> rg_name, json |-> json],
               LAMBDA st : show_vnet(name, rg_name, json, st), "all")

Call_list_vnet_subnets ==
    /\ alive
    /\ \E name \in { <<"t">> }, rg_name \in RgNames, json \in BOOLEAN :
        Invoke("list_vnet_subnets", [name |-> name, rg_name |-> rg_name, json |-> json],
               LAMBDA st : list_vnet_subnets(name, rg_name, json, st), "all")

Call_show_vnet_subnet ==
    /\ alive
    /\ \E name \in { <<"n">> }, rg_name \in RgNames, vnet_name \in { <<"t">> },
          json \in BOOLEAN :
        Invoke("show_vnet_subnet",
               [name |-> name, rg_name |-> rg_name, vnet_name |-> vnet_name, json |-> json],
               LAMBDA st : show_vnet_subnet(name, rg_name, vnet_name, json, st), "all")

Call_list_vm ==
    /\ alive
    /\ \E rg_name \in RgNames, json \in BOOLEAN :
        Invoke("list_vm", [rg_name |-> rg_name, json |-> json],
               LAMBDA st : list_vm(rg_name, json, st), "all")

Call_list_resources ==
    /\ alive
    /\ \E rg_name \in RgNames, json \in BOOLEAN :
        Invoke("list_resources", [rg_name |-> rg_name, json |-> json],
               LAMBDA st : list_resources(rg_name, json, st), "all")

Call_show_all_route_tables ==
    /\ alive
    /\ \E rg_name \in RgNames, json \in BOOLEAN :
        Invoke("show_all_route_tables", [rg_name |-> rg_name, json |-> json],
               LAMBDA st : show_all_route_tables(rg_name, json, st), "all")

Call_show_route_table ==
    /\ alive
    /\ \E rg_name \in RgNames, route_table \in { <<"b">> }, json \in BOOLEAN :
        Invoke("show_route_table",
               [rg_name |-> rg_name, route_table |-> route_table, json |-> json],
               LAMBDA st : show_route_table(rg_name, route_table, json, st), "all")

Call_show_routes ==
    /\ alive
    /\ \E rg_name \in RgNames, route_table \in { <<"b">> }, json \in BOOLEAN :
        Invoke("show_routes",
               [rg_name |-> rg_name, route_table |-> route_table, json |-> json],
               LAMBDA st : show_routes(rg_name, route_table, json, st), "all")

Call_list_pip ==
    /\ alive
    /\ \E rg_name \in RgNames, json \in BOOLEAN :
        Invoke("list_pip", [rg_name |-> rg_name, json |-> json],
               LAMBDA st : list_pip(rg_name, json, st), "all")

Call_list_nsg ==
    /\ alive
    /\ \E rg_name \in RgNames, json \in BOOLEAN :
        Invoke("list_nsg", [rg_name |-> rg_name, json |-> json],
               LAMBDA st : list_nsg(rg_name, json, st), "all")

Call_list_nic ==
    /\ alive
    /\ \E rg_name \in RgNames, json \in BOOLEAN :
        Invoke("list_nic", [rg_name |-> rg_name, json |-> json],
               LAMBDA st : list_nic(rg_name, json, st), "all")

Call_list_disk ==
    /\ alive
    /\ \E rg_name \in RgNames, json \in BOOLEAN :
        Invoke("list_disk", [rg_name |-> rg_name, json |-> json],
               LAMBDA st : list_disk(rg_name, json, st), "all")

Call_list_storage ==
    /\ alive
    /\ \E rg_name \in RgNames, json \in BOOLEAN :
        Invoke("list_storage", [rg_name |-> rg_name, json |-> json],
               LAMBDA st : list_storage(rg_name, json, st), "all")

Call_show_storage ==
    /\ alive
    /\ \E name \in { <<"a">> }, rg_name \in RgNames, json \in BOOLEAN :
        Invoke("show_storage", [name |-> name, rg_name |-> rg_name, json |-> json],
               LAMBDA st : show_storage(name, rg_name, json, st), "all")

Call_get_storage_keys ==
    /\ alive
    /\ \E storage_name \in { <<"a">> }, rg_name \in RgNames :
        Invoke("get_storage_keys", [storage_name |-> storage_name, rg_name |-> rg_name],
               LAMBDA st : get_storage_keys(storage_name, rg_name, st), "all")

Call_list_storage_container ==
    /\ alive
    /\ \E rg_name \in RgNames, storage_name \in { <<"a">> }, json \in BOOLEAN :
        Invoke("list_storage_container",
               [rg_name |-> rg_name, storage_name |-> storage_name, json |-> json],
               LAMBDA st : list_storage_container(rg_name, storage_name, json, st), "all")

Call_get_public_ip_from_vm ==
    /\ alive
    /\ \E pip_name \in { <<"p">> }, rg_name \in RgNames :
        Invoke("get_public_ip_from_vm", [pip_name |-> pip_name, rg_name |-> rg_name],
               LAMBDA st : get_public_ip_from_vm(pip_name, rg_name, st), "pip")

Call_create_rg ==
    /\ alive
    /\ \E rg_name \in RgNames, loc \in {eastus} :
        Invoke("create_rg", [rg_name |-> rg_name, location |-> loc],
               LAMBDA st : create_rg(rg_name, loc, st), "all")

Call_delete_rg ==
    /\ alive
    /\ \E rg_name \in RgNames :
        Invoke("delete_rg", [rg_name |-> rg_name],
               LAMBDA st : delete_rg(rg_name, st), "all")

Call_create_vnet ==
    /\ alive
    /\ \E name \in { <<"t">> }, rg_name \in RgNames, add_prefix \in { None, <<"p">> },
          loc \in {eastus}, subnet_name \in { None, <<"n">> },
          subnet_prefix \in { None, <<"p">> } :
        Invoke("create_vnet",
               [name |-> name, rg_name |-> rg_name, add_prefix |-> add_prefix,
                location |-> loc, subnet_name |-> subnet_name,
                subnet_prefix |-> subnet_prefix],
               LAMBDA st : create_vnet(name, rg_name, add_prefix, loc, subnet_name,
                                       subnet_prefix, st), "all")

Call_delete_vnet ==
    /\ alive
    /\ \E name \in { <<"t">> }, rg_name \in RgNames :
        Invoke("delete_vnet", [name |-> name, rg_name |-> rg_name],
               LAMBDA st : delete_vnet(name, rg_name, st), "all")

Call_add_vnet_subnet ==
    /\ alive
    /\ \E name \in { <<"n">> }, rg_name \in RgNames, vnet_name \in { <<"t">> },
          address_prefix \in { <<"p">> }, route_table \in { None, <<"b">> } :
        Invoke("add_vnet_subnet",
               [name |-> name, rg_name |-> rg_name, vnet_name |-> vnet_name,
                address_prefix |-> address_prefix, route_table |-> route_table],
               LAMBDA st : add_vnet_subnet(name, rg_name, vnet_name, address_prefix,
                                           route_table, st), "all")

Call_delete_vnet_subnet ==
    /\ alive
    /\ \E name \in { <<"n">> }, rg_name \in RgNames, vnet_name \in { <<"t">> } :
        Invoke("delete_vnet_subnet",
               [name |-> name, rg_name |-> rg_name, vnet_name |-> vnet_name],
               LAMBDA st : delete_vnet_subnet(name, rg_name, vnet_name, st), "all")

Call_add_route_table ==
    /\ alive
    /\ \E rg_name \in RgNames, route_table \in { <<"b">> } :
        Invoke("add_route_table", [rg_name |-> rg_name, route_table |-> route_table],
               LAMBDA st : add_route_table(rg_name, route_table, st), "all")

Call_delete_route_table ==
    /\ alive
    /\ \E rg_name \in RgNames, route_table \in { <<"b">> } :
        Invoke("delete_route_table", [rg_name |-> rg_name, route_table |-> route_table],
               LAMBDA st : delete_route_table(rg_name, route_table, st), "all")

Call_add_route ==
    /\ alive
    /\ \E rg_name \in RgNames, route_table \in { <<"b">> }, route \in { <<"o">> },
          prefix \in { <<"p">> }, next_hop_add \in { <<"h">> },
          next_hop_type \in {VirtualAppliance} :
        Invoke("add_route",
               [rg_name |-> rg_name, route_table |-> route_table, route |-> route,
                prefix |-> prefix, next_hop_add |-> next_hop_add,
                next_hop_type |-> next_hop_type],
               LAMBDA st : add_route(rg_name, route_table, route, prefix, next_hop_add,
                                     next_hop_type, st), "all")

Call_delete_route ==
    /\ alive
    /\ \E rg_name \in RgNames, route_table \in { <<"b">> }, route \in { <<"o">> } :
        Invoke("delete_route",
               [rg_name |-> rg_name, route_table |-> route_table, route |-> route],
               LAMBDA st : delete_route(rg_name, route_table, route, st), "all")

Call_create_storage ==
    /\ alive
    /\ \E name \in { <<"a">> }, rg_name \in RgNames, loc \in {eastus},
          sku \in {Standard_LRS} :
        Invoke("create_storage",
               [name |-> name, rg_name |-> rg_name, location |-> loc, sku |-> sku],
               LAMBDA st : create_storage(name, rg_name, loc, sku, st), "all")

Call_delete_storage ==
    /\ alive
    /\ \E name \in { <<"a">> }, rg_name \in RgNames :
        Invoke("delete_storage", [name |-> name, rg_name |-> rg_name],
               LAMBDA st : delete_storage(name, rg_name, st), "all")

Call_create_storage_container ==
    /\ alive
    /\ \E name \in { <<"v">> }, rg_name \in RgNames, storage_name \in { <<"a">> } :
        Invoke("create_storage_container",
               [name |-> name, rg_name |-> rg_name, storage_name |-> storage_name],
               LAMBDA st : create_storage_container(name, rg_name, storage_name, st),
               "all")

Call_delete_storage_container ==
    /\ alive
    /\ \E name \in { <<"v">> }, rg_name \in RgNames, storage_name \in { <<"a">> } :
        Invoke("delete_storage_container",
               [name |-> name, rg_name |-> rg_name, storage_name |-> storage_name],
               LAMBDA st : delete_storage_container(name, rg_name, storage_name, st),
               "all")

Call_upload_vhd_to_container ==
    /\ alive
    /\ \E container_name \in { <<"v">> }, storage_name \in { <<"a">> },
          rg_name \in RgNames, file_path \in FilePaths :
        Invoke("upload_vhd_to_container",
               [container_name |-> container_name, storage_name |-> storage_name,
                rg_name |-> rg_name, file_path |-> file_path],
               LAMBDA st : upload_vhd_to_container(container_name, storage_name, rg_name,
                                                   file_path, st), "sample")

Call_deploy_linux ==
    /\ alive
    /\ \E name \in VmNames, rg_name \in RgNames, vnet_name \in { <<"t">> },
          subnet_name \in { <<"n">> }, username \in { <<"u">> }, pw \in { <<"w">> } :
        Invoke("deploy_linux",
               [name |-> name, rg_name |-> rg_name, vnet_name |-> vnet_name,
                subnet_name |-> subnet_name, username |-> username, pw |-> pw],
               LAMBDA st : deploy_linux(name, rg_name, vnet_name, subnet_name, username,
                                        pw, st), "all")

Call_delete_linux ==
    /\ alive
    /\ \E name \in VmNames, rg_name \in RgNames :
        Invoke("delete_linux", [name |-> name, rg_name |-> rg_name],
               LAMBDA st : delete_linux(name, rg_name, st), "sample")

Call_get_disk_name ==
    /\ alive
    /\ \E rg_name \in RgNames, vm_name \in VmNames :
        Invoke("get_disk_name", [rg_name |-> rg_name, vm_name |-> vm_name],
               LAMBDA st : get_disk_name(rg_name, vm_name, st), "all")

Call_delete_public_ip ==
    /\ alive
    /\ \E rg_name \in RgNames, vm_name \in VmNames, pip_name \in OptionalNames :
        Invoke("delete_public_ip",
               [rg_name |-> rg_name, vm_name |-> vm_name, name |-> pip_name],
               LAMBDA st : delete_public_ip(rg_name, vm_name, pip_name, st), "all")

Call_delete_nsg ==
    /\ alive
    /\ \E rg_name \in RgNames, vm_name \in VmNames, nsg_name \in OptionalNames :
        Invoke("delete_nsg",
               [rg_name |-> rg_name, vm_name |-> vm_name, name |-> nsg_name],
               LAMBDA st : delete_nsg(rg_name, vm_name, nsg_name, st), "all")

Call_delete_nic ==
    /\ alive
    /\ \E rg_name \in RgNames, vm_name \in VmNames, nic_name \in OptionalNames :
        Invoke("delete_nic",
               [rg_name |-> rg_name, vm_name |-> vm_name, name |-> nic_name],
               LAMBDA st : delete_nic(rg_name, vm_name, nic_name, st), "all")

Call_delete_disk ==
    /\ alive
    /\ \E rg_name \in RgNames, vm_name \in VmNames, disk_name \in OptionalNames :
        Invoke("delete_disk",
               [rg_name |-> rg_name, vm_name |-> vm_name, name |-> disk_name],
               LAMBDA st : delete_disk(rg_name, vm_name, disk_name, st), "all")

Call_deploy_from_template_custom_image ==
    /\ alive
    /\ \E resource_group \in RgNames, storage_name \in { <<"a">> },
          image_path \in FilePaths, template_file \in { <<"m">> },
          parameter_file \in { <<"q">> }, loc \in {eastus},
          storage_container_name \in { <<"v">> } :
        Invoke("deploy_from_template_custom_image",
               [resource_group |-> resource_group, storage_name |-> storage_name,
                image_path |-> image_path, template_file |-> template_file,
                parameter_file |-> parameter_file, location |-> loc,
                storage_container_name |-> storage_container_name],
               LAMBDA st : deploy_from_template_custom_image(
                               resource_group, storage_name, image_path, template_file,
                               parameter_file, loc, storage_container_name, st), "sample")

Call_deploy_from_template_mp_image ==
    /\ alive
    /\ \E rg_name \in RgNames, loc \in {eastus}, template_file \in { <<"m">> },
          parameter_file \in { <<"q">> } :
        Invoke("deploy_from_template_mp_image",
               [rg_name |-> rg_name, location |-> loc, template_file |-> template_file,
                parameter_file |-> parameter_file],
               LAMBDA st : deploy_from_template_mp_image(rg_name, loc, template_file,
                                                         parameter_file, st), "all")

-----------------------------------------------------------------------------
(* Azure Deployment Functions: create_parameter_file *)

MaxLines == 2     \* lines of a parameter template
MaxTokens == 3    \* pieces of a whole template

\* the pieces template lines are made of
Tokens == { <<"[", "k", "]">>, <<"[", "x", "]">>, <<"[", "]">>, <<"]">>, <<"a">> }

RECURSIVE LinesOf(_)
\* the lines of n pieces, each without its line end
LinesOf(n) ==
    IF n = 0 THEN { <<>> }
    ELSE { l \o t : l \in LinesOf(n - 1), t \in Tokens }

RECURSIVE TemplatesOf(_, _)
\* the template files of at most `lines` lines and `tokens` pieces
TemplatesOf(lines, tokens) ==
    IF lines = 0 THEN { <<>> }
    ELSE { <<>> } \cup
         UNION { { <<l>> \o rest : l \in LinesOf(n),
                                   rest \in TemplatesOf(lines - 1, tokens - n) } :
                 n \in 0 .. tokens }

Templates == TemplatesOf(MaxLines, MaxTokens)

\* what yaml.load makes of a scalar: a str, or an int (v its decimal text)
StrValue(s) == [t |-> "str", v |-> s]
IntValue(s) == [t |-> "int", v |-> s]
DictValue == [t |-> "dict", v |-> <<>>]

\* a mapping of the testbed file: a function from key to value
Sections ==
    UNION { { f \in [keys -> { StrValue(<<"v">>), IntValue(<<"5">>) }] :
                  <<"x">> \in keys => f[<<"x">>].t = "str" } :
            keys \in SUBSET { <<"k">>, <<"x">> } }

NoEntries == [key \in {} |-> DictValue]

\* the testbed document: the entries at its top, and those under `azure:` if any
Docs ==
    { [has_azure |-> TRUE, azure |-> sec, top |-> NoEntries] : sec \in Sections }
        \cup { [has_azure |-> FALSE, azure |-> NoEntries, top |-> sec] : sec \in Sections }

\* the file at output_file_path before the call
OutputFiles == { [exists |-> FALSE, lines |-> <<>>],
                 [exists |-> TRUE, lines |-> << <<"o">> >>] }

YamlObjects == { azure, <<>>, None }

\* the dictionary yaml.load returned
whole(doc) ==
    [key \in DOMAIN doc.top \cup (IF doc.has_azure THEN {azure} ELSE {}) |->
        IF key \in DOMAIN doc.top THEN doc.top[key] ELSE DictValue]

\* where \w* started after line[i] stops
WordEnd(line, i) ==
    Min({ j \in (i + 1) .. (Len(line) + 1) : j = Len(line) + 1 \/ ~IsWord(line[j]) })

\* re.search(r'\[(\w*)\]', line): the leftmost match, if there is one
re_search(line) ==
    LET starts == { i \in 1 .. Len(line) :
                      /\ line[i] = "["
                      /\ WordEnd(line, i) <= Len(line)
                      /\ line[WordEnd(line, i)] = "]" }
    IN IF starts = {} THEN [found |-> FALSE, start |-> 0, end |-> 0]
       ELSE [found |-> TRUE, start |-> Min(starts), end |-> WordEnd(line, Min(starts))]

RECURSIVE replace(_, _, _)
\* s.replace(old, new) for a non-empty old: every occurrence, left to right
replace(s, old, new) ==
    IF Len(s) < Len(old) THEN s
    ELSE IF SubSeq(s, 1, Len(old)) = old
    THEN new \o replace(SubSeq(s, Len(old) + 1, Len(s)), old, new)
    ELSE <<Head(s)>> \o replace(Tail(s), old, new)

\* new_line with testbed.get(key, key): an absent key leaves the line as it is
new_line_AbsentKeyKept(line, testbed) ==
    IF ~Contains(line, <<"]">>) THEN [exc |-> NoExc, line |-> line]
    ELSE LET m == re_search(line)
             group0 == SubSeq(line, m.start, m.end)
             group1 == SubSeq(line, m.start + 1, m.end - 1)
         IN IF ~m.found THEN [exc |-> "AttributeError", line |-> line]
            ELSE IF group1 \notin DOMAIN testbed THEN [exc |-> NoExc, line |-> line]
            ELSE IF testbed[group1].t # "str" THEN [exc |-> "TypeError", line |-> line]
            ELSE [exc |-> NoExc,
                  line |-> replace(line, group0,
                                   <<"\"">> \o testbed[group1].v \o <<"\"">>)]

\* lines 427-430: the line to write, or the exception the line raises
new_line(line, testbed) ==
    \* `'[' and ']' in line` is `']' in line`
    IF ~Contains(line, <<"]">>) THEN [exc |-> NoExc, line |-> line]
    ELSE LET m == re_search(line)
             group0 == SubSeq(line, m.start, m.end)
             group1 == SubSeq(line, m.start + 1, m.end - 1)
         IN IF ~m.found THEN [exc |-> "AttributeError", line |-> line]
            ELSE IF group1 \notin DOMAIN testbed THEN [exc |-> "KeyError", line |-> line]
            ELSE IF testbed[group1].t # "str" THEN [exc |-> "TypeError", line |-> line]
            ELSE [exc |-> NoExc,
                  line |-> replace(line, group0,
                                   <<"\"">> \o testbed[group1].v \o <<"\"">>)]

RECURSIVE write_lines(_, _, _)
\* the loop of lines 426-433: the lines written, and the exception that ended it
write_lines(lines, testbed, written) ==
    IF lines = <<>> THEN [exc |-> NoExc, written |-> written]
    ELSE Then(new_line(Head(lines), testbed), LAMBDA r :
            IF r.exc # NoExc THEN [exc |-> r.exc, written |-> written]
            ELSE write_lines(Tail(lines), testbed, Append(written, r.line)))

\* create_parameter_file, reading the files of `files`: output_file_path is
\* opened with 'w+' before the section is selected
create_parameter_file(files, yaml_object) ==
    IF ~Truthy(yaml_object)
    THEN write_lines(files.template, whole(files.testbed), <<>>)
    ELSE IF yaml_object \notin DOMAIN whole(files.testbed)
    THEN [exc |-> "KeyError", written |-> <<>>]
    \* of YamlObjects only `azure` can be a key, and its value is a mapping
    ELSE write_lines(files.template, files.testbed.azure, <<>>)

\* obj.create_parameter_file(parameter_template, testbed_file, output_file_path,
\* yaml_object). The output file is closed only when the loop ends: after an
\* exception the lines written reach the file if the interpreter flushes the
\* abandoned file object, and are lost if it does not.
Call_create_parameter_file ==
    /\ alive
    /\ call.op = "none"
    /\ \E yaml_object \in YamlObjects, flushed \in BOOLEAN :
        \E r \in { create_parameter_file(fs, yaml_object) } :
            /\ r.exc = NoExc => flushed
            /\ fs' = [fs EXCEPT !.output =
                        [exists |-> TRUE,
                         lines |-> IF flushed THEN r.written ELSE <<>>]]
            /\ call' = [op |-> "create_parameter_file",
                        args |-> [yaml_object |-> yaml_object],
                        env |-> <<>>,
                        res |-> [exc |-> r.exc, ret |-> None, cmds |-> <<>>,
                                 reads |-> <<>>, log |-> <<>>]]
    /\ UNCHANGED <<alive, self>>

-----------------------------------------------------------------------------

\* the files of the working directory when nothing has run
SampleFiles ==
    [template |-> << <<"[", "k", "]">>, <<"a">> >>,
     testbed |-> [has_azure |-> TRUE, azure |-> [key \in { <<"k">> } |-> StrValue(<<"v">>)],
                  top |-> NoEntries],
     output |-> [exists |-> FALSE, lines |-> <<>>]]

\* before any object is constructed
Init ==
    /\ alive = FALSE
    /\ self = [type |-> azure]
    /\ call = NoCall
    /\ fs = SampleFiles

Next ==
    \/ Construct
    \/ Continue
    \/ Call_login_azure_cli
    \/ Call_disconnect_azure
    \/ Call_list_rg
    \/ Call_show_rg
    \/ Call_list_vnet
    \/ Call_show_vnet
    \/ Call_list_vnet_subnets
    \/ Call_show_vnet_subnet
    \/ Call_list_vm
    \/ Call_list_resources
    \/ Call_show_all_route_tables
    \/ Call_show_route_table
    \/ Call_show_routes
    \/ Call_list_pip
    \/ Call_get_public_ip_from_vm
    \/ Call_list_nsg
    \/ Call_list_nic
    \/ Call_list_disk
    \/ Call_list_storage
    \/ Call_show_storage
    \/ Call_get_storage_keys
    \/ Call_list_storage_container
    \/ Call_create_rg
    \/ Call_delete_rg
    \/ Call_create_vnet
    \/ Call_delete_vnet
    \/ Call_add_vnet_subnet
    \/ Call_delete_vnet_subnet
    \/ Call_add_route_table
    \/ Call_delete_route_table
    \/ Call_add_route
    \/ Call_delete_route
    \/ Call_create_storage
    \/ Call_delete_storage
    \/ Call_create_storage_container
    \/ Call_delete_storage_container
    \/ Call_upload_vhd_to_container
    \/ Call_deploy_linux
    \/ Call_delete_linux
    \/ Call_get_disk_name
    \/ Call_delete_public_ip
    \/ Call_delete_nsg
    \/ Call_delete_nic
    \/ Call_delete_disk
    \/ Call_deploy_from_template_custom_image
    \/ Call_deploy_from_template_mp_image
    \/ Call_create_parameter_file

Spec == Init /\ [][Next]_vars

\* create_parameter_file alone, on every template and testbed of the bounds
InitParam ==
    /\ alive = TRUE
    /\ self = AzureCLI_init(<<"a">>, <<"a">>, <<"a">>, None, None).attrs
    /\ call = NoCall
    /\ fs \in [template : Templates, testbed : Docs, output : OutputFiles]

NextParam ==
    \/ Call_create_parameter_file
    \/ Continue

SpecParam == InitParam /\ [][NextParam]_vars

-----------------------------------------------------------------------------
(* Properties *)

\* an argument the caller supplied, and not as an empty string
Supplied(x) == x # None /\ Len(x) > 0

Last(s) == s[Len(s)]

\* the constructor's arguments hold one complete login method
FullCredentials ==
    \/ Supplied(call.args.appid) /\ Supplied(call.args.dirid) /\ Supplied(call.args.key)
    \/ Supplied(call.args.username) /\ Supplied(call.args.pw)

\* C1: constructing AzureCLI succeeds exactly when appid, dirid and key are all
\* supplied and non-empty, or username and pw both are; with any other
\* arguments the constructor raises ValueError and no object is produced.
C1_ConstructorAcceptsOnlyFullCredentials ==
    call.op = "__init__" =>
        /\ (call.res.exc = NoExc) <=> FullCredentials
        /\ alive <=> FullCredentials
        /\ ~FullCredentials => call.res.exc = "ValueError"

\* C1's case: a partial service-principal set (no key), and no username login
C1_PartialSetRejected ==
    /\ call.op = "__init__"
    /\ Supplied(call.args.appid) /\ Supplied(call.args.dirid)
    /\ ~Supplied(call.args.key)
    /\ ~Supplied(call.args.username)
    /\ call.res.exc = "ValueError"
    /\ ~alive

\* `which az` found the CLI, or `pip install azure-cli` installed it
CliInstalled ==
    \/ call.env[1].ok
    \/ Len(call.env) >= 2 /\ call.env[2].ok

\* C2: login_azure_cli uses the login method the object was constructed with:
\* an object built from username and pw issues `az login -u <username> -p <pw>`
\* and, when that command succeeds, returns with is_logged_in = True; an
\* object built from appid, dirid and key issues the service-principal login.
C2_LoginUsesConstructedMethod ==
    (call.op = "login_azure_cli" /\ CliInstalled) =>
        /\ Len(call.res.cmds) > 0
        /\ Last(call.res.cmds) =
              IF HasAttr(self, "username")
              THEN "az login -u " \o Flat(self.username) \o " -p " \o Flat(self.pw)
              ELSE "az login -u " \o Flat(self.appid) \o " --service-principal --tenant "
                       \o Flat(self.dirid) \o " -p " \o Flat(self.key)
        /\ Last(call.env).ok => call.res.exc = NoExc /\ self.is_logged_in

-----------------------------------------------------------------------------

Range(s) == { s[i] : i \in 1 .. Len(s) }

\* the operations that are not list or show operations
NonListOps ==
    { "disconnect_azure", "create_rg", "delete_rg", "create_vnet", "delete_vnet",
      "add_vnet_subnet", "delete_vnet_subnet", "add_route_table", "delete_route_table",
      "add_route", "delete_route", "create_storage", "delete_storage",
      "create_storage_container", "delete_storage_container", "deploy_linux",
      "delete_linux", "delete_disk", "delete_nic", "delete_nsg", "delete_public_ip",
      "upload_vhd_to_container", "deploy_from_template_custom_image",
      "deploy_from_template_mp_image" }

\* C3: every operation that is not a list operation, when an az command of its
\* own fails (a command it runs for its status, not a listing it reads), logs
\* the failure and re-raises it: it never returns normally after the failure.
C3_NonListOpsLogAndReraise ==
    call.op \in NonListOps =>
        \A i \in 1 .. Len(call.env) :
            (~call.env[i].ok
                /\ call.res.reads[i] \in {"status", "vmcreate", "deployment"}) =>
                /\ call.res.exc = "CalledProcessError"
                /\ "error" \in Range(call.res.log)

\* C4: list_resources and list_disk swallow a failure of their az command:
\* they log it, raise nothing, and return to the caller.
C4_SwallowingListsReturn ==
    (call.op \in {"list_resources", "list_disk"} /\ ~Last(call.env).ok) =>
        /\ call.res.exc = NoExc
        /\ "error" \in Range(call.res.log)

\* the list and show operations
ListOps ==
    { "list_rg", "show_rg", "list_vnet", "show_vnet", "list_vnet_subnets",
      "show_vnet_subnet", "list_vm", "list_resources", "show_all_route_tables",
      "show_route_table", "show_routes", "list_pip", "list_nsg", "list_nic",
      "list_disk", "list_storage", "show_storage", "list_storage_container" }

\* the operation ran its listing command (after the key listing, if it has one)
ListingRan ==
    /\ call.op \in ListOps
    /\ Len(call.res.reads) > 0
    /\ Last(call.res.reads) = "text"

\* zero bytes, or only ASCII whitespace
Blank(out) == \A i \in 1 .. Len(out) : out[i] \in {9, 10, 11, 12, 13, 32}

\* C5: every list/show operation raises an assertion failure when its az
\* command succeeds with empty output (zero bytes, or only whitespace), and
\* returns the decoded output text otherwise.
C5_EmptyOutputAsserts ==
    (ListingRan /\ Last(call.env).ok) =>
        IF Blank(Last(call.env).out)
        THEN call.res.exc = "AssertionError"
        ELSE call.res.exc = NoExc /\ call.res.ret = Decode(Last(call.env).out)

\* obj.<op>(**a) for a list/show operation
ListOp(op, a, st) ==
    CASE op = "list_rg" -> list_rg(a.tags, a.json, st)
      [] op = "show_rg" -> show_rg(a.rg_name, a.json, st)
      [] op = "list_vnet" -> list_vnet(a.rg_name, a.json, st)
      [] op = "show_vnet" -> show_vnet(a.name, a.rg_name, a.json, st)
      [] op = "list_vnet_subnets" -> list_vnet_subnets(a.name, a.rg_name, a.json, st)
      [] op = "show_vnet_subnet" ->
            show_vnet_subnet(a.name, a.rg_name, a.vnet_name, a.json, st)
      [] op = "list_vm" -> list_vm(a.rg_name, a.json, st)
      [] op = "list_resources" -> list_resources(a.rg_name, a.json, st)
      [] op = "show_all_route_tables" -> show_all_route_tables(a.rg_name, a.json, st)
      [] op = "show_route_table" -> show_route_table(a.rg_name, a.route_table, a.json, st)
      [] op = "show_routes" -> show_routes(a.rg_name, a.route_table, a.json, st)
      [] op = "list_pip" -> list_pip(a.rg_name, a.json, st)
      [] op = "list_nsg" -> list_nsg(a.rg_name, a.json, st)
      [] op = "list_nic" -> list_nic(a.rg_name, a.json, st)
      [] op = "list_disk" -> list_disk(a.rg_name, a.json, st)
      [] op = "list_storage" -> list_storage(a.rg_name, a.json, st)
      [] op = "show_storage" -> show_storage(a.name, a.rg_name, a.json, st)
      [] op = "list_storage_container" ->
            list_storage_container(a.rg_name, a.storage_name, a.json, st)

\* C6: for every list/show operation the json flag only selects the output
\* format: with json=False the az command ends in ` -o table`, with json=True
\* it is the same command without that suffix, and either way the operation
\* returns the command's decoded output.
C6_JsonFlagOnlySelectsFormat ==
    ListingRan =>
        LET table == ListOp(call.op, [call.args EXCEPT !.json = FALSE], Start(call.env))
            raw == ListOp(call.op, [call.args EXCEPT !.json = TRUE], Start(call.env))
        IN /\ Last(table.st.cmds) = Last(raw.st.cmds) \o " -o table"
           /\ table.exc = raw.exc
           /\ table.ret = raw.ret
           /\ call.res.exc = NoExc => call.res.ret = Decode(Last(call.env).out)

\* the helpers that delete what a VM leaves behind
DeleteHelpers == { "delete_disk", "delete_nic", "delete_nsg", "delete_public_ip" }

\* the VM listing succeeded and vm_name appears in its text
VmListed ==
    /\ call.env[1].ok
    /\ Contains(Decode(call.env[1].out), call.args.vm_name)

\* C7: delete_disk, delete_nic, delete_nsg and delete_public_ip first fetch the
\* VM listing of the resource group; if vm_name appears in it they raise an
\* assertion failure and issue no delete command; a delete command is issued
\* only after a VM listing in which vm_name does not appear.
C7_DeleteOnlyAfterVmGone ==
    call.op \in DeleteHelpers =>
        /\ call.res.cmds[1] = "az vm list -g " \o Flat(call.args.rg_name) \o " -o table"
        /\ VmListed => call.res.exc = "AssertionError" /\ Len(call.res.cmds) = 1
        /\ \A i \in 1 .. Len(call.res.cmds) :
              call.res.reads[i] = "status" => i > 1 /\ call.env[1].ok /\ ~VmListed

\* C7's case: the VM is still listed, and delete_disk stops at the assertion
C7_DeleteBlockedByListedVm ==
    /\ call.op = "delete_disk"
    /\ VmListed
    /\ call.res.exc = "AssertionError"
    /\ call.res.cmds = << "az vm list -g r -o table" >>

\* the resource a helper names by default
DefaultName(op, vm_name) ==
    CASE op = "delete_nsg" -> vm_name \o <<"N", "S", "G">>
      [] op = "delete_nic" -> vm_name \o <<"V", "M", "N", "i", "c">>
      [] op = "delete_public_ip" -> vm_name \o <<"P", "u", "b", "l", "i", "c", "I", "P">>

\* the az subcommand a helper deletes with
Resource(op) ==
    CASE op = "delete_nsg" -> "nsg"
      [] op = "delete_nic" -> "nic"
      [] op = "delete_public_ip" -> "public-ip"

\* C8: when no resource name is passed (None, or an empty name) delete_nsg
\* deletes <vm_name>NSG, delete_nic <vm_name>VMNic and delete_public_ip
\* <vm_name>PublicIP; when a name is passed, the delete command names that
\* name and no other.
C8_DefaultAndExplicitNames ==
    (call.op \in {"delete_nsg", "delete_nic", "delete_public_ip"}
         /\ Last(call.res.reads) = "status") =>
        Last(call.res.cmds) =
            "az network " \o Resource(call.op) \o " delete -n "
                \o Flat(IF Supplied(call.args.name) THEN call.args.name
                        ELSE DefaultName(call.op, call.args.vm_name))
                \o " -g " \o Flat(call.args.rg_name)

\* C8's case: delete_nic without a name deletes <vm_name>VMNic
C8_DefaultNicDeleted ==
    /\ call.op = "delete_nic"
    /\ call.args.name = None
    /\ call.args.vm_name = <<"v">>
    /\ Last(call.res.cmds) = "az network nic delete -n vVMNic -g r"
    /\ call.res.exc = NoExc

-----------------------------------------------------------------------------

\* the call found the section yaml_object names
SectionSelected ==
    /\ call.op = "create_parameter_file"
    /\ Truthy(call.args.yaml_object) => fs.testbed.has_azure

\* the selected testbed section
Section ==
    IF Truthy(call.args.yaml_object) THEN fs.testbed.azure ELSE whole(fs.testbed)

\* where the character c stands in a line
Positions(line, c) == { i \in 1 .. Len(line) : line[i] = c }

\* a line without any bracket
Plain(line) == Positions(line, "[") = {} /\ Positions(line, "]") = {}

\* a line whose only brackets are those of one placeholder [identifier], the
\* identifier a key of the section
OnePlaceholder(line, sec) ==
    /\ Cardinality(Positions(line, "[")) = 1
    /\ Cardinality(Positions(line, "]")) = 1
    /\ LET i == Min(Positions(line, "["))
           j == Min(Positions(line, "]"))
       IN i < j /\ SubSeq(line, i + 1, j - 1) \in DOMAIN sec

\* such a line with the placeholder replaced by the quoted value
Filled(line, sec) ==
    LET i == Min(Positions(line, "["))
        j == Min(Positions(line, "]"))
    IN SubSeq(line, 1, i - 1) \o <<"\"">> \o sec[SubSeq(line, i + 1, j - 1)].v
           \o <<"\"">> \o SubSeq(line, j + 1, Len(line))

\* C9: create_parameter_file writes one output line per template line, in the
\* same order; a template line with a [identifier] placeholder whose
\* identifier is a key of the selected section is written with the placeholder
\* replaced by the section's value in double quotes, the rest unchanged.
\* (Stated for templates of at most one placeholder per line, as the
\* generator assumes.)
C9_PlaceholdersReplaced ==
    (SectionSelected
        /\ \A n \in 1 .. Len(fs.template) :
              Plain(fs.template[n]) \/ OnePlaceholder(fs.template[n], Section)) =>
        /\ call.res.exc = NoExc
        /\ Len(fs.output.lines) = Len(fs.template)
        /\ \A n \in 1 .. Len(fs.template) :
              fs.output.lines[n] =
                  IF Plain(fs.template[n]) THEN fs.template[n]
                  ELSE Filled(fs.template[n], Section)

\* the placeholders of a line: a [, word characters only, a ]
Placeholders(line) ==
    { p \in Positions(line, "[") \X Positions(line, "]") :
        /\ p[1] < p[2]
        /\ \A k \in (p[1] + 1) .. (p[2] - 1) : IsWord(line[k]) }

\* the identifier of the line's leftmost placeholder
Identifier(line) ==
    LET p == CHOOSE q \in Placeholders(line) :
                 \A r \in Placeholders(line) : q[1] <= r[1]
    IN SubSeq(line, p[1] + 1, p[2] - 1)

\* the line's placeholder names no key of the section
AbsentKey(line, sec) ==
    Placeholders(line) # {} /\ Identifier(line) \notin DOMAIN sec

\* a line the generator writes: without a ], or with a placeholder whose key
\* the section maps to a string
Writable(line, sec) ==
    \/ Positions(line, "]") = {}
    \/ /\ Placeholders(line) # {}
       /\ Identifier(line) \in DOMAIN sec
       /\ sec[Identifier(line)].t = "str"

\* the first n-1 template lines are written and line n names an absent key
FailsAtLine(n) ==
    /\ SectionSelected
    /\ n \in 1 .. Len(fs.template)
    /\ \A m \in 1 .. (n - 1) : Writable(fs.template[m], Section)
    /\ AbsentKey(fs.template[n], Section)

\* C10: create_parameter_file fails with KeyError when it comes to a template
\* line whose placeholder identifier is not a key of the selected section,
\* and then never writes that line: what the output file holds is no more
\* than the lines before it.
C10_AbsentKeyRaisesKeyError ==
    \A n \in 1 .. MaxLines + 1 :
        FailsAtLine(n) =>
            /\ call.res.exc = "KeyError"
            /\ Len(fs.output.lines) < n

\* C10's case: the first line was written, the second names an absent key
C10_SecondLineAbsentKey ==
    /\ FailsAtLine(2)
    /\ call.res.exc = "KeyError"
    /\ fs.template[1] = <<"[", "k", "]">>
    /\ fs.output.lines = << <<"\"", "v", "\"">> >>

-----------------------------------------------------------------------------

StartsWith(s, p) == Len(s) >= Len(p) /\ SubSeq(s, 1, Len(p)) = p

\* the steps of deploy_from_template_custom_image, by the az command of each
CustomImageSteps ==
    << "az group create ", "az storage account create ", "az storage container create ",
       "az storage blob upload ", "az group deployment create " >>

\* where in the call's commands its steps are: the commands run for their status
StepPositions == { i \in 1 .. Len(call.res.cmds) : call.res.reads[i] = "status" }

\* C11: deploy_from_template_custom_image issues its steps in the fixed order
\* create resource group, create storage account, create storage container,
\* upload image, `az group deployment create`; a failure of any command is
\* raised to the caller and no later command is issued, so the deployment
\* command is issued only after four steps that succeeded.
C11_CustomImageStepsInOrder ==
    call.op = "deploy_from_template_custom_image" =>
        /\ \A i \in StepPositions :
              LET k == Cardinality({ j \in StepPositions : j <= i })
              IN k <= 5 /\ StartsWith(call.res.cmds[i], CustomImageSteps[k])
        /\ \A i \in 1 .. Len(call.env) :
              ~call.env[i].ok => call.res.exc # NoExc /\ i = Len(call.env)

\* the two deploy workflows
DeployOps == { "deploy_from_template_custom_image", "deploy_from_template_mp_image" }

\* C12: the deploy workflows never retry and never clean up: within one call
\* of deploy_from_template_custom_image or deploy_from_template_mp_image no az
\* command is issued again after it failed, and no delete command is issued
\* at all, so what the earlier steps created is left in place when the call
\* raises.
C12_DeployNeitherRetriesNorCleansUp ==
    call.op \in DeployOps =>
        /\ \A i \in 1 .. Len(call.env) : \A j \in (i + 1) .. Len(call.env) :
              ~call.env[i].ok => call.res.cmds[j] # call.res.cmds[i]
        /\ \A i \in 1 .. Len(call.res.cmds) : ~Contains(call.res.cmds[i], " delete")

\* C12's case: the resource group was created, the deployment failed, and
\* the call raised having issued nothing after the deployment command
C12_FailedDeploymentLeftInPlace ==
    /\ call.op = "deploy_from_template_mp_image"
    /\ call.res.exc = "CalledProcessError"
    /\ call.res.cmds = << "az group show --name r -o table",
                          "az group create --name r --location eastus",
                          "az group deployment create -g r --template-file m --parameters q" >>
    /\ ~call.env[1].ok /\ call.env[2].ok /\ ~call.env[3].ok

-----------------------------------------------------------------------------

\* the show_rg query of the call raised: the command failed, or what it
\* printed did not pass show_rg's own checks
ShowRgRaised ==
    show_rg(call.args.rg_name, FALSE, Start(<< call.env[1] >>)).exc # NoExc

GroupCreate ==
    "az group create --name " \o Flat(call.args.rg_name) \o " --location "
        \o Flat(call.args.location)

Deployment ==
    "az group deployment create -g " \o Flat(call.args.rg_name) \o " --template-file "
        \o Flat(call.args.template_file) \o " --parameters "
        \o Flat(call.args.parameter_file)

\* C13: deploy_from_template_mp_image first queries the resource group with
\* show_rg; it issues `az group create` if and only if that query raised,
\* for whatever reason, and then the deployment command; when the group
\* exists no create command is issued, and when the create fails its failure
\* is raised and the deployment command is not issued.
C13_GroupCreatedIffShowFailed ==
    call.op = "deploy_from_template_mp_image" =>
        /\ call.res.cmds[1] = "az group show --name " \o Flat(call.args.rg_name) \o " -o table"
        /\ IF ShowRgRaised
           THEN /\ Len(call.res.cmds) >= 2
                /\ call.res.cmds[2] = GroupCreate
                /\ IF call.env[2].ok
                   THEN call.res.cmds = << call.res.cmds[1], GroupCreate, Deployment >>
                   ELSE /\ Len(call.res.cmds) = 2
                        /\ call.res.exc = "CalledProcessError"
           ELSE call.res.cmds = << call.res.cmds[1], Deployment >>

\* C13's case: the query printed a blank, show_rg's assertion failed, and the
\* group was created before the deployment
C13_BlankShowCreatesGroup ==
    /\ call.op = "deploy_from_template_mp_image"
    /\ call.env[1] = Ok(<<32>>)
    /\ call.res.cmds = << "az group show --name r -o table",
                          "az group create --name r --location eastus",
                          "az group deployment create -g r --template-file m --parameters q" >>
    /\ call.res.exc = NoExc

\* C14: deploy_from_template_mp_image returns the output of the successful
\* deployment command (as text) to its caller.
C14_MpImageReturnsDeploymentOutput ==
    (call.op = "deploy_from_template_mp_image"
         /\ Last(call.res.reads) = "deployment" /\ Last(call.env).ok) =>
        /\ call.res.exc = NoExc
        /\ call.res.ret = Decode(Last(call.env).out)

-----------------------------------------------------------------------------

\* C15: deploy_linux returns the decoded output of `az vm create` exactly when
\* the command succeeds and its output contains the text `VM running`; when
\* the command succeeds without that text it raises an assertion failure, and
\* when the command fails it re-raises that failure.
C15_DeployLinuxChecksVmRunning ==
    call.op = "deploy_linux" =>
        /\ StartsWith(call.res.cmds[1], "az vm create ")
        /\ IF ~call.env[1].ok THEN call.res.exc = "CalledProcessError"
           ELSE IF Contains(Decode(call.env[1].out), VM_running)
           THEN call.res.exc = NoExc /\ call.res.ret = Decode(call.env[1].out)
           ELSE call.res.exc = "AssertionError"

\* C15's case: `az vm create` succeeded printing a text without `VM running`
C15_CreatedWithoutVmRunning ==
    /\ call.op = "deploy_linux"
    /\ call.env = << Ok(<<118>>) >>
    /\ call.res.exc = "AssertionError"
    /\ call.res.ret = None

-----------------------------------------------------------------------------

\* C16: login_azure_cli first checks that the az binary is present and
\* attempts `pip install azure-cli` only if that check fails; if the install
\* succeeds it goes on to the login command, and if the install fails the
\* install's own failure is re-raised to the caller unchanged and no login
\* command is issued.  (The step to the login command is stated for objects
\* built from appid, dirid and key.)
C16_InstallOnlyWhenAzMissing ==
    call.op = "login_azure_cli" =>
        /\ call.res.cmds[1] = "which az"
        /\ \A i \in 1 .. Len(call.res.cmds) :
              call.res.cmds[i] = "pip install azure-cli" => i = 2 /\ ~call.env[1].ok
        /\ ~call.env[1].ok =>
              /\ Len(call.res.cmds) >= 2
              /\ call.res.cmds[2] = "pip install azure-cli"
              /\ IF call.env[2].ok
                 THEN HasAttr(self, "appid") =>
                          /\ Len(call.res.cmds) = 3
                          /\ StartsWith(call.res.cmds[3], "az login ")
                 ELSE /\ call.res.exc = "CalledProcessError"
                      /\ Len(call.res.cmds) = 2

-----------------------------------------------------------------------------

LoggedIn(obj) == HasAttr(obj, "is_logged_in") /\ obj.is_logged_in

\* the call ended with its login command, which succeeded or not
LoginTried(c) ==
    /\ c.op = "login_azure_cli"
    /\ StartsWith(Last(c.res.cmds), "az login ")

\* C17: is_logged_in is False after construction and becomes True only at the
\* end of a login_azure_cli call whose login command succeeded; when the
\* login command fails, the failure is raised to the caller and that call
\* does not set is_logged_in to True.
C17_LoggedInOnlyAfterLogin ==
    [][ /\ call'.op = "__init__" => ~LoggedIn(self')
        /\ (~LoggedIn(self) /\ LoggedIn(self')) =>
              /\ LoginTried(call')
              /\ Last(call'.env).ok
              /\ call'.res.exc = NoExc
        /\ (LoginTried(call') /\ ~Last(call'.env).ok) =>
              /\ call'.res.exc = "CalledProcessError"
              /\ self' = self ]_vars

\* C17's case: the login command failed, the call raised, and the object is
\* still not logged in
C17_FailedLoginNotLoggedIn ==
    /\ LoginTried(call)
    /\ ~Last(call.env).ok
    /\ call.res.exc = "CalledProcessError"
    /\ ~self.is_logged_in

\* C18: the object keeps no mutable state beyond what construction sets: the
\* credential fields and type never change after construction, and no
\* operation other than login_azure_cli changes any field of the object,
\* whether the operation succeeds or fails.
C18_OnlyLoginChangesTheObject ==
    [][ alive =>
          /\ alive'
          /\ DOMAIN self' = DOMAIN self
          /\ \A a \in DOMAIN self \ {"is_logged_in"} : self'[a] = self[a]
          /\ call'.op # "login_azure_cli" => self' = self ]_vars

\* C18's case: an operation failed on an object that had logged in, and the
\* object is as construction and the login left it
C18_FailedDeleteLeavesObject ==
    /\ call.op = "delete_rg"
    /\ call.res.exc = "CalledProcessError"
    /\ self = [AzureCLI_init(<<"a">>, <<"a">>, <<"a">>, None, None).attrs
                  EXCEPT !.is_logged_in = TRUE]

-----------------------------------------------------------------------------

\* the key listing evaluated to a list of records, each with a name and a value
KeyListRead ==
    /\ call.op = "get_storage_keys"
    /\ call.env[1].ok
    /\ call.env[1].form = "literal"
    /\ \A i \in 1 .. Len(call.env[1].out) :
          {"keyName", "value"} \subseteq DOMAIN call.env[1].out[i]

\* C19: get_storage_keys returns a plain mapping that contains, for every key
\* record in the CLI's key list, the record's keyName mapped to that record's
\* value, and no other entries.
C19_KeysMappedByName ==
    KeyListRead =>
        LET records == call.env[1].out
            keys == call.res.ret
        IN /\ call.res.exc = NoExc
           /\ \A i \in 1 .. Len(records) :
                 << records[i].keyName, records[i].value >> \in Range(keys)
           /\ \A e \in Range(keys) :
                 \E i \in 1 .. Len(records) :
                     e = << records[i].keyName, records[i].value >>
           /\ \A a, b \in 1 .. Len(keys) : keys[a][1] = keys[b][1] => a = b

\* C19's case: a listing of two keys, returned as a mapping of two entries
C19_TwoKeysReturned ==
    /\ KeyListRead
    /\ Len(call.env[1].out) = 2
    /\ call.res.ret = << << <<"k">>, <<"s">> >>, << <<"j">>, <<"x">> >> >>

-----------------------------------------------------------------------------

\* the final component of a path: the text after its last / or \, the whole
\* path when it has no separator
FinalComponent(path) ==
    LET seps == { i \in 1 .. Len(path) : path[i] \in {"/", "\\"} } IN
    IF seps = {} THEN path ELSE SubSeq(path, Max(seps) + 1, Len(path))

\* C20: upload_vhd_to_container uploads to a blob named after the file: the
\* blob name is the final path component of file_path (surrounding blanks
\* aside), the whole of file_path when it has no separator; the fallback name
\* `blob.vhd` is used only when the path yields no file name.
C20_BlobNamedAfterFile ==
    (call.op = "upload_vhd_to_container" /\ Last(call.res.reads) = "status"
         /\ Strip(FinalComponent(call.args.file_path)) # <<>>) =>
        StartsWith(Last(call.res.cmds),
                   "az storage blob upload  -n "
                       \o Flat(Strip(FinalComponent(call.args.file_path)))
                       \o " -c " \o Flat(call.args.container_name) \o " ")

-----------------------------------------------------------------------------

\* the names a listing shows: its maximal runs of characters other than blanks
Words(text) ==
    { SubSeq(text, p[1], p[2]) :
        p \in { q \in (1 .. Len(text)) \X (1 .. Len(text)) :
                  /\ q[1] <= q[2]
                  /\ \A k \in q[1] .. q[2] : ~IsWhite(text[k])
                  /\ q[1] = 1 \/ IsWhite(text[q[1] - 1])
                  /\ q[2] = Len(text) \/ IsWhite(text[q[2] + 1]) } }

\* the container listing the call read, as text
ContainerListing == Decode(call.env[2].out)

\* C21: upload_vhd_to_container issues the blob upload command only when the
\* container container_name exists in the storage account, i.e. is one of
\* the containers in the container listing; otherwise it raises an assertion
\* failure and issues no upload command.
C21_UploadOnlyToListedContainer ==
    (call.op = "upload_vhd_to_container" /\ Len(call.env) >= 2 /\ call.env[2].ok) =>
        IF call.args.container_name \in Words(ContainerListing)
        THEN call.res.exc # "AssertionError"
        ELSE /\ call.res.exc = "AssertionError"
             /\ \A i \in 1 .. Len(call.res.cmds) :
                   ~StartsWith(call.res.cmds[i], "az storage blob upload ")

-----------------------------------------------------------------------------

\* the deletions of delete_linux, by the az command of each
DeleteLinuxSteps ==
    << "az vm delete ", "az disk delete ", "az network nic delete ",
       "az network nsg delete ", "az network public-ip delete " >>

\* C22: delete_linux issues `az vm delete` first and then, only if it
\* succeeded, deletes the VM's disk, NIC, NSG and public IP in that order;
\* each deletion is issued only after the previous one succeeded, and the
\* first failure (of a command, or of an assertion) is raised to the caller
\* with no later deletion issued.
C22_DeleteLinuxInOrder ==
    call.op = "delete_linux" =>
        /\ StartsWith(call.res.cmds[1], DeleteLinuxSteps[1])
        /\ \A i \in StepPositions :
              LET k == Cardinality({ j \in StepPositions : j <= i })
              IN /\ k <= 5
                 /\ StartsWith(call.res.cmds[i], DeleteLinuxSteps[k])
                 /\ \A j \in StepPositions : j < i => call.env[j].ok
        /\ \A i \in 1 .. Len(call.env) :
              ~call.env[i].ok => call.res.exc # NoExc /\ i = Len(call.env)
        /\ call.res.exc = NoExc => Cardinality(StepPositions) = 5

\* C22's case: the VM and its disk were deleted, the NIC deletion failed, and
\* the call raised without going on to the NSG
C22_NicDeletionFailed ==
    /\ call.op = "delete_linux"
    /\ Cardinality(StepPositions) = 3
    /\ StartsWith(Last(call.res.cmds), "az network nic delete ")
    /\ ~Last(call.env).ok
    /\ call.res.exc = "CalledProcessError"

\* the call came to its resource listing, after the five deletions
ResourcesListed ==
    /\ call.op = "delete_linux"
    /\ Cardinality(StepPositions) = 5
    /\ \A i \in StepPositions : call.env[i].ok
    /\ Last(call.res.cmds) = "az resource list -g " \o Flat(call.args.rg_name) \o " -o table"
    /\ Last(call.env).ok

\* C23: delete_linux returns normally only if, after the VM and all four
\* sub-resource deletions, the resource listing of the resource group does
\* not contain the VM's name; if the name is still present it raises an
\* assertion failure.
C23_DeleteLinuxVerifiesNothingLeft ==
    call.op = "delete_linux" =>
        /\ call.res.exc = NoExc =>
              /\ ResourcesListed
              /\ ~Contains(Decode(Last(call.env).out), call.args.name)
        /\ (ResourcesListed /\ Contains(Decode(Last(call.env).out), call.args.name)) =>
              call.res.exc = "AssertionError"

\* C23's case: everything was deleted, but the listing still shows the name
C23_NameStillListed ==
    /\ ResourcesListed
    /\ call.args.name = <<"v">>
    /\ Last(call.env).out = <<118, 95>>
    /\ call.res.exc = "AssertionError"

-----------------------------------------------------------------------------

\* C24: delete_disk called without a disk name issues `az disk delete` only
\* with a disk name that was found in the resource group's disk listing, a
\* name of the form <vm_name>_...; when get_disk_name finds no such name, no
\* delete command is issued.
C24_DiskDeletedOnlyByFoundName ==
    (call.op = "delete_disk" /\ ~Supplied(call.args.name)) =>
        \A i \in 1 .. Len(call.res.cmds) :
            StartsWith(call.res.cmds[i], "az disk delete ") =>
                /\ i = 3
                /\ call.env[2].ok
                /\ Contains(Decode(call.env[2].out), call.args.vm_name \o <<"_">>)
                /\ StartsWith(call.res.cmds[i],
                              "az disk delete -n " \o Flat(call.args.vm_name) \o "_")

-----------------------------------------------------------------------------

\* C25: create_parameter_file copies every template line that contains no
\* [identifier] placeholder to the output unchanged and without raising,
\* whatever other characters the line contains, including a [ or a ] that
\* is not part of a placeholder.
C25_LinesWithoutPlaceholderCopied ==
    (SectionSelected
        /\ \A n \in 1 .. Len(fs.template) : Placeholders(fs.template[n]) = {}) =>
        /\ call.res.exc = NoExc
        /\ fs.output.lines = fs.template

\* C26: when create_parameter_file fails part-way (for example on a
\* placeholder whose key is absent), a file that already existed at
\* output_file_path keeps its previous content: the output file is changed
\* only when the whole template was rendered successfully.
C26_FailureKeepsPreviousOutput ==
    [][ (call'.op = "create_parameter_file" /\ call'.res.exc # NoExc
            /\ fs.output.exists) =>
            fs'.output = fs.output ]_vars

-----------------------------------------------------------------------------

\* C27: is_logged_in tracks the session over any sequence of login_azure_cli
\* and disconnect_azure calls: it is True after a successful login and False
\* again after disconnect_azure has logged out.
C27_LoggedInTracksSession ==
    /\ (LoginTried(call) /\ Last(call.env).ok) => self.is_logged_in
    /\ (call.op = "disconnect_azure" /\ call.env[1].ok) => ~self.is_logged_in

\* the VM listing the helper read shows VMs, none of them named vm_name
OtherVmsOnly ==
    /\ call.op \in DeleteHelpers
    /\ call.env[1].ok
    /\ ~Blank(call.env[1].out)
    /\ call.args.vm_name \notin Words(Decode(call.env[1].out))

\* C28: a deletion helper (delete_disk, delete_nic, delete_nsg,
\* delete_public_ip) called for VM v is blocked only by VM v itself: whenever
\* no VM named exactly v exists in the resource group, the helper passes its
\* VM check and goes on, even when other VMs with different names exist in
\* that resource group.
C28_BlockedOnlyByTheVmItself ==
    OtherVmsOnly => Len(call.res.cmds) > 1

====
